---- MODULE Spec2Model ----
(***************************************************************************)
(* Ticket state machine and message relay of the support bot.              *)
(*                                                                         *)
(* The stored ticket records (table users), the reminder job store of the  *)
(* scheduler and the forum topics of the staff group are the state.  Each  *)
(* update handler is one action; what the transport and the live profile   *)
(* supply (display name, analyzer verdict, delivery outcome, message ids,  *)
(* the clock) is drawn from small sets.                                    *)
(***************************************************************************)
EXTENDS Integers, FiniteSets, Sequences, TLC

\* ---------------------------------------------------------------- bounds
MaxTopics == 2

\* Rows, jobs and topics of different users are disjoint (every key is the
\* user id or a topic id created for that user), so one user is followed.
Users == {1}
TopicIds == 1..MaxTopics

\* Display names are opaque to the handlers: the middleware copies the live
\* one into the row, so two stand for "as stored" and "changed".
Names == {1, 2}

\* Message ids and timestamps are opaque to the handlers: they are stored
\* and only ever tested against None, so one value stands for each.
MsgIds == {1}
Times == {1}

\* Python None of the nullable integer / text columns.
None == 0

\* get_user / get_by_message_thread_id returning None: no row.
NoUser == [id |-> None]

VARIABLES
    users,              \* table users: user id -> row, or NoUser
    jobs,               \* scheduler job store: set of [id, message_thread_id]
    topics,             \* forum topics that exist in the staff group
    nextTopic,          \* id the next created forum topic gets
    links,              \* table message_links
    reminders_enabled,  \* config.bot.REMINDERS_ENABLED
    last,               \* the event processed last and what it sent
    tasks               \* update handlers in flight (interleaved runs only)

vars ==
    <<users, jobs, topics, nextTopic, links, reminders_enabled, last, tasks>>

\* ------------------------------------------------------------ user store

\* Column defaults of a ticket row that the middleware does not pass.
UserDataDefaults ==
    [ticket_status |-> "open", awaiting_reply |-> FALSE,
     operator_replied |-> FALSE, last_user_message_at |-> None,
     panel_message_id |-> None]

\* UserData(...) built by the middleware for a user without a row.
NewUser(u, name) ==
    [id |-> u,
     message_thread_id |-> None,
     message_silent_id |-> None,
     message_silent_mode |-> FALSE,
     is_banned |-> FALSE,
     full_name |-> name,
     ticket_status |-> UserDataDefaults.ticket_status,
     awaiting_reply |-> UserDataDefaults.awaiting_reply,
     operator_replied |-> UserDataDefaults.operator_replied,
     last_user_message_at |-> UserDataDefaults.last_user_message_at,
     panel_message_id |-> UserDataDefaults.panel_message_id]

get_user(us, u) == us[u]

\* INSERT ... ON CONFLICT(id) DO UPDATE: the whole row is replaced.
update_user(us, u, ud) == [us EXCEPT ![u] = ud]

\* SELECT ... WHERE message_thread_id = ? LIMIT 1
get_by_message_thread_id(us, t) ==
    LET found == {u \in DOMAIN us :
                     us[u] # NoUser /\ us[u].message_thread_id = t}
    IN IF found = {} THEN NoUser
       ELSE us[CHOOSE u \in found : \A v \in found : u <= v]

\* INSERT INTO message_links ...
\* ON CONFLICT(thread_message_id, user_message_id) DO NOTHING
add_message_link(ln, thread_message_id, user_id, user_message_id) ==
    IF \E l \in ln : /\ l.thread_message_id = thread_message_id
                     /\ l.user_message_id = user_message_id
    THEN ln
    ELSE ln \cup {[thread_message_id |-> thread_message_id,
                   user_id |-> user_id,
                   user_message_id |-> user_message_id]}

\* add_message_link for every copy of the list sent_messages.
RECURSIVE add_message_links(_, _, _, _)
add_message_links(ln, thread_message_id, user_id, sent) ==
    IF sent = {} THEN ln
    ELSE LET m == CHOOSE x \in sent : \A y \in sent : x <= y
         IN add_message_links(
                add_message_link(ln, thread_message_id, user_id, m),
                thread_message_id, user_id, sent \ {m})

\* SELECT user_message_id FROM message_links WHERE thread_message_id = ?
get_message_links(ln, thread_message_id) ==
    {l.user_message_id : l \in {k \in ln :
                                  k.thread_message_id = thread_message_id}}

\* DELETE FROM message_links WHERE thread_message_id = ?
delete_message_links(ln, thread_message_id) ==
    {l \in ln : l.thread_message_id # thread_message_id}

\* ------------------------------------------------------------- reminders

_job_id(u) == u

UserJobs(jb, u) == {j \in jb : j.id = _job_id(u)}

\* add_job that keeps the job it should replace.
add_job_keep_existing(jb, u, t) ==
    jb \cup {[id |-> _job_id(u), message_thread_id |-> t]}

\* scheduler.add_job(..., id=_job_id(user_id), replace_existing=True)
add_job(jb, u, t) ==
    (jb \ UserJobs(jb, u)) \cup {[id |-> _job_id(u), message_thread_id |-> t]}

\* schedule_support_reminder that adds no job.
schedule_support_reminder_dropped(jb, u, t) == jb

schedule_support_reminder(jb, u, t) ==
    IF t = None THEN jb ELSE add_job(jb, u, t)

\* scheduler.remove_job: JobLookupError when no job has the id.
remove_job(jb, u) ==
    IF UserJobs(jb, u) = {}
    THEN [jobs |-> jb, error |-> TRUE]
    ELSE [jobs |-> jb \ UserJobs(jb, u), error |-> FALSE]

\* try: remove_job  except JobLookupError: pass
cancel_support_reminder(jb, u) == remove_job(jb, u).jobs

\* ---------------------------------------------------------- forum topics

\* The mutable world a handler works on.
Ctx(us, jb, tp, nt, ln) ==
    [users |-> us, jobs |-> jb, topics |-> tp, next |-> nt, links |-> ln]

\* Topic ids the model follows: every user followed can get a topic and
\* MaxTopics - 1 replacements can be created on top of that.
TopicBound(c) == MaxTopics + Cardinality(DOMAIN c.users) - 1

\* create_forum_topic: a new topic of the staff group, id returned.
create_forum_topic(c) ==
    [c |-> [c EXCEPT !.topics = @ \cup {c.next}, !.next = @ + 1],
     thread |-> c.next]

\* get_or_create_forum_topic: the stored topic, else a new one, persisted.
get_or_create_forum_topic(c, ud) ==
    IF ud.message_thread_id # None
    THEN [c |-> c, ud |-> ud, thread |-> ud.message_thread_id]
    ELSE LET cr == create_forum_topic(c)
             ud1 == [ud EXCEPT !.message_thread_id = cr.thread]
         IN [c |-> [cr.c EXCEPT !.users = update_user(@, ud.id, ud1)],
             ud |-> ud1, thread |-> cr.thread]

\* ---------------------------------------------------------------- output

\* Topic icons of config.bot: BOT_EMOJI_ID (new or unanswered),
\* BOT_ACTIVE_EMOJI_ID (operator replied), BOT_RESOLVED_EMOJI_ID.
Icons == {"new", "active", "resolved"}

\* An event and what it sent: relayed = the user's message reached the
\* topic, copied = the staff message reached the user, notice = a reminder
\* notice was posted, raised = the handler ended with an exception, icon =
\* the icon edit_forum_topic was called with ("none": not called),
\* attempts = calls of message.forward / album.copy_to, confirmation = the
\* text the staff message was answered with ("none": no answer), posted =
\* the service messages the handler itself sent into the staff group,
\* thread = the topic id get_or_create_forum_topic returned last, command =
\* the staff message was a command text, delivery = what copy_to answered
\* ("none": not called), to_user = the texts the handler itself sent to the
\* user, interpolated = the display names put into outgoing texts, each
\* with whether it went through sanitize_display_name, target = the message
\* a /del replied to, deleted = the copies /del deleted in the user's chat,
\* origin = /del deleted the target in the topic, not_found = the callback
\* was answered with a "not found" alert.
Event(kind, u) ==
    [kind |-> kind, user |-> u, relayed |-> FALSE, copied |-> FALSE,
     notice |-> FALSE, raised |-> FALSE, icon |-> "none", attempts |-> 0,
     confirmation |-> "none", posted |-> {}, thread |-> None,
     command |-> FALSE, delivery |-> "none", to_user |-> {},
     interpolated |-> {}, target |-> None, deleted |-> {},
     origin |-> FALSE, not_found |-> FALSE]

\* A display name as it appears in an outgoing text.
Shown(name, sanitized) == [name |-> name, sanitized |-> sanitized]

Out(kind, u, relayed, notice, raised) ==
    [Event(kind, u) EXCEPT !.relayed = relayed, !.notice = notice,
                           !.raised = raised]

\* -------------------------------------------------- private chat: message

\* Middleware that builds a new row for every update.
RedisMiddleware_always_new(c, u, name) ==
    [c |-> [c EXCEPT !.users = update_user(@, u, NewUser(u, name))],
     ud |-> NewUser(u, name)]

\* RedisMiddleware.__call__ for a private chat: read the row (or build a
\* new one), refresh the display name from the live profile, write it back.
RedisMiddleware(c, u, name) ==
    LET user_redis == get_user(c.users, u)
        user_data == IF user_redis = NoUser
                     THEN NewUser(u, name)
                     ELSE [user_redis EXCEPT !.full_name = name]
    IN [c |-> [c EXCEPT !.users = update_user(@, u, user_data)],
        ud |-> user_data]

\* A verdict that blocks on any reason at all (SuspicionResult.triggered).
should_block_triggered(high, medium) == high > 0 \/ medium > 0

\* SuspicionResult.should_block over the sizes of the two reason lists.
should_block(high, medium) == high > 0 \/ medium >= 2

\* message.forward / album.copy_to into a topic: a topic that no longer
\* exists answers "message thread not found"; for an existing topic r is
\* what the transport answers (of the two attempts of one message only one
\* can reach an existing topic).
Forward(c, thread, r) == IF thread \notin c.topics THEN "not_found" ELSE r

\* Result of a handler: the world it leaves, what it sent, whether the
\* model's topic counter would pass its bound.
Res(c, out, overflow) == [c |-> c, out |-> out, overflow |-> overflow]

\* handle_incoming_message after the relay succeeded (lines 186-269).
AfterRelay(c, ud, thread, ticket_was_resolved, should_reset_icon, in, n) ==
    LET u == ud.id
        reset == thread # None /\ should_reset_icon
        ud1 == IF reset THEN [ud EXCEPT !.panel_message_id = in.mid] ELSE ud
        out == [Out("user_message", u, TRUE, FALSE, FALSE) EXCEPT
                   !.icon = IF reset THEN "new" ELSE "none", !.attempts = n,
                   !.posted = IF reset THEN {"panel"} ELSE {},
                   !.thread = thread,
                   !.interpolated =
                       IF reset THEN {Shown(ud.full_name, TRUE)} ELSE {},
                   !.to_user =
                       IF ud.last_user_message_at = None \/ ticket_was_resolved
                       THEN {"message_sent"} ELSE {}]
    IN IF ud1.ticket_status = "resolved" /\ in.gratitude
       THEN LET ud2 == [ud1 EXCEPT !.awaiting_reply = FALSE]
            IN Res([c EXCEPT !.users = update_user(@, u, ud2)], out, FALSE)
       ELSE LET ud2 == [ud1 EXCEPT !.ticket_status = "open",
                                   !.awaiting_reply = TRUE,
                                   !.last_user_message_at = in.now]
                jb == IF reminders_enabled
                      THEN schedule_support_reminder(c.jobs, u,
                                                     ud2.message_thread_id)
                      ELSE c.jobs
            IN Res([c EXCEPT !.users = update_user(@, u, ud2), !.jobs = jb],
                   out, FALSE)

\* The try/except that heals a stale reference with the id of the topic
\* created last instead of creating a replacement.
RelayToTopic_heal_reuses(c, ud, ticket_was_resolved, should_reset_icon, in) ==
    LET g1 == get_or_create_forum_topic(c, ud)
        f1 == Forward(g1.c, g1.thread, in.r)
    IN IF ud.message_thread_id = None /\ c.next > TopicBound(c)
       THEN Res(c, Event("user_message", ud.id), TRUE)
       ELSE IF f1 = "ok"
       THEN AfterRelay(g1.c, g1.ud, g1.thread, ticket_was_resolved,
                       should_reset_icon, in, 1)
       ELSE IF f1 = "not_found" /\ c.next - 1 \in c.topics
       THEN AfterRelay(g1.c, [g1.ud EXCEPT !.message_thread_id = c.next - 1],
                       c.next - 1, ticket_was_resolved, should_reset_icon,
                       in, 2)
       ELSE Res(g1.c, Out("user_message", ud.id, FALSE, FALSE, TRUE), FALSE)

\* The try/except that does not store the replacement topic.
RelayToTopic_no_persist(c, ud, ticket_was_resolved, should_reset_icon, in) ==
    LET g1 == get_or_create_forum_topic(c, ud)
        f1 == Forward(g1.c, g1.thread, in.r)
    IN IF c.next > TopicBound(c)
       THEN Res(c, Event("user_message", ud.id), TRUE)
       ELSE IF f1 = "ok"
       THEN AfterRelay(g1.c, g1.ud, g1.thread, ticket_was_resolved,
                       should_reset_icon, in, 1)
       ELSE IF f1 = "not_found"
       THEN LET cr == create_forum_topic(g1.c)
                ud2 == [g1.ud EXCEPT !.message_thread_id = cr.thread]
            IN IF Forward(cr.c, cr.thread, in.r) = "ok"
               THEN AfterRelay(cr.c, ud2, cr.thread, ticket_was_resolved,
                               should_reset_icon, in, 2)
               ELSE Res(cr.c,
                        [Out("user_message", ud.id, FALSE, FALSE, TRUE)
                            EXCEPT !.attempts = 2, !.thread = cr.thread],
                        FALSE)
       ELSE Res(g1.c,
                [Out("user_message", ud.id, FALSE, FALSE, TRUE)
                    EXCEPT !.attempts = 1, !.thread = g1.thread],
                FALSE)

\* The try/except that swallows an error other than the stale reference,
\* so that the transition is committed after a failed relay too.
RelayToTopic_commit_on_error(c, ud, ticket_was_resolved, should_reset_icon, in) ==
    LET g1 == get_or_create_forum_topic(c, ud)
        f1 == Forward(g1.c, g1.thread, in.r)
        done == AfterRelay(g1.c, g1.ud, g1.thread, ticket_was_resolved,
                           should_reset_icon, in, 1)
    IN IF c.next > TopicBound(c)
       THEN Res(c, Event("user_message", ud.id), TRUE)
       ELSE IF f1 = "ok" THEN done
       ELSE IF f1 = "not_found"
       THEN LET cr == create_forum_topic(g1.c)
                ud2 == [g1.ud EXCEPT !.message_thread_id = cr.thread]
                c2 == [cr.c EXCEPT !.users = update_user(@, ud.id, ud2)]
            IN IF Forward(c2, cr.thread, in.r) = "ok"
               THEN AfterRelay(c2, ud2, cr.thread, ticket_was_resolved,
                               should_reset_icon, in, 2)
               ELSE Res(c2,
                        [Out("user_message", ud.id, FALSE, FALSE, TRUE)
                            EXCEPT !.attempts = 2, !.thread = cr.thread],
                        FALSE)
       ELSE Res(done.c,
                [Out("user_message", ud.id, FALSE, FALSE, FALSE)
                    EXCEPT !.attempts = 1, !.thread = g1.thread],
                FALSE)

\* The try/except around copy_message_to_topic (lines 148-184).
RelayToTopic(c, ud, ticket_was_resolved, should_reset_icon, in) ==
    LET u == ud.id
        needs == ud.message_thread_id = None
        g1 == get_or_create_forum_topic(c, ud)
        f1 == Forward(g1.c, g1.thread, in.r)
    IN IF needs /\ c.next > TopicBound(c)
       THEN Res(c, Event("user_message", u), TRUE)
       ELSE IF f1 = "ok"
       THEN AfterRelay(g1.c, g1.ud, g1.thread, ticket_was_resolved,
                       should_reset_icon, in, 1)
       ELSE IF f1 = "not_found"
       THEN IF g1.c.next > TopicBound(c)
            THEN Res(c, Event("user_message", u), TRUE)
            ELSE LET cr == create_forum_topic(g1.c)
                     ud2 == [g1.ud EXCEPT !.message_thread_id = cr.thread]
                     c2 == [cr.c EXCEPT !.users = update_user(@, u, ud2)]
                     g2 == get_or_create_forum_topic(c2, ud2)
                     f2 == Forward(g2.c, g2.thread, in.r)
                 IN IF f2 = "ok"
                    THEN AfterRelay(g2.c, g2.ud, g2.thread,
                                    ticket_was_resolved, should_reset_icon,
                                    in, 2)
                    ELSE Res(g2.c,
                             [Out("user_message", u, FALSE, FALSE, TRUE)
                                 EXCEPT !.attempts = 2, !.thread = g2.thread],
                             FALSE)
       ELSE Res(g1.c,
                [Out("user_message", u, FALSE, FALSE, TRUE)
                    EXCEPT !.attempts = 1, !.thread = g1.thread],
                FALSE)

\* handle_incoming_message that resets the icon on every message.
handle_incoming_message_always_reset(c, ud, in) ==
    IF ud.is_banned
       THEN Res(c, Out("user_message", ud.id, FALSE, FALSE, FALSE), FALSE)
       ELSE RelayToTopic(c, ud, ud.ticket_status = "resolved", TRUE, in)

\* handle_incoming_message without the is_banned return of lines 89-91.
handle_incoming_message_no_ban_check(c, ud, in) ==
    LET u == ud.id
    IN IF should_block(in.high, in.medium)
       THEN LET ud1 == [ud EXCEPT !.is_banned = TRUE,
                                  !.awaiting_reply = FALSE]
                lost == ud1.message_thread_id # None
                          /\ ud1.message_thread_id \notin c.topics
            IN Res([c EXCEPT !.users = update_user(@, u, ud1)],
                   [Out("user_message", u, FALSE, FALSE, lost) EXCEPT
                       !.posted = IF lost THEN {}
                                  ELSE {"auto_blocked_alert"},
                       !.to_user = {"auto_blocked_notice"},
                       !.interpolated = {Shown(ud1.full_name, TRUE)}],
                   FALSE)
       ELSE LET ticket_was_resolved == ud.ticket_status = "resolved"
                ud1 == IF ticket_was_resolved
                       THEN [ud EXCEPT !.operator_replied = FALSE]
                       ELSE ud
                should_reset_icon ==
                    ticket_was_resolved \/ ~ud1.operator_replied
            IN RelayToTopic(c, ud1, ticket_was_resolved, should_reset_icon, in)

\* handle_incoming_message that returns at once while silent mode is on.
handle_incoming_message_silent_drop(c, ud, in) ==
    LET u == ud.id
    IN IF ud.is_banned \/ ud.message_silent_mode
       THEN Res(c, Out("user_message", u, FALSE, FALSE, FALSE), FALSE)
       ELSE IF should_block(in.high, in.medium)
       THEN LET ud1 == [ud EXCEPT !.is_banned = TRUE,
                                  !.awaiting_reply = FALSE]
                lost == ud1.message_thread_id # None
                          /\ ud1.message_thread_id \notin c.topics
            IN Res([c EXCEPT !.users = update_user(@, u, ud1)],
                   [Out("user_message", u, FALSE, FALSE, lost) EXCEPT
                       !.posted = IF lost THEN {}
                                  ELSE {"auto_blocked_alert"},
                       !.to_user = {"auto_blocked_notice"},
                       !.interpolated = {Shown(ud1.full_name, TRUE)}],
                   FALSE)
       ELSE LET ticket_was_resolved == ud.ticket_status = "resolved"
                ud1 == IF ticket_was_resolved
                       THEN [ud EXCEPT !.operator_replied = FALSE]
                       ELSE ud
                should_reset_icon ==
                    ticket_was_resolved \/ ~ud1.operator_replied
            IN RelayToTopic(c, ud1, ticket_was_resolved, should_reset_icon, in)

\* handle_incoming_message whose auto-ban leaves awaiting_reply as it was.
handle_incoming_message_ban_keeps_awaiting(c, ud, in) ==
    LET u == ud.id
    IN IF ud.is_banned
       THEN Res(c, Out("user_message", u, FALSE, FALSE, FALSE), FALSE)
       ELSE IF should_block(in.high, in.medium)
       THEN LET ud1 == [ud EXCEPT !.is_banned = TRUE]
                lost == ud1.message_thread_id # None
                          /\ ud1.message_thread_id \notin c.topics
            IN Res([c EXCEPT !.users = update_user(@, u, ud1)],
                   [Out("user_message", u, FALSE, FALSE, lost) EXCEPT
                       !.posted = IF lost THEN {}
                                  ELSE {"auto_blocked_alert"},
                       !.to_user = {"auto_blocked_notice"},
                       !.interpolated = {Shown(ud1.full_name, TRUE)}],
                   FALSE)
       ELSE LET ticket_was_resolved == ud.ticket_status = "resolved"
                ud1 == IF ticket_was_resolved
                       THEN [ud EXCEPT !.operator_replied = FALSE]
                       ELSE ud
                should_reset_icon ==
                    ticket_was_resolved \/ ~ud1.operator_replied
            IN RelayToTopic(c, ud1, ticket_was_resolved, should_reset_icon, in)

\* handle_incoming_message on the user_data the middleware passes.
handle_incoming_message(c, ud, in) ==
    LET u == ud.id
    IN IF ud.is_banned
       THEN Res(c, Out("user_message", u, FALSE, FALSE, FALSE), FALSE)
       ELSE IF should_block(in.high, in.medium)
       THEN LET ud1 == [ud EXCEPT !.is_banned = TRUE,
                                  !.awaiting_reply = FALSE]
                lost == ud1.message_thread_id # None
                          /\ ud1.message_thread_id \notin c.topics
            IN Res([c EXCEPT !.users = update_user(@, u, ud1)],
                   [Out("user_message", u, FALSE, FALSE, lost) EXCEPT
                       !.posted = IF lost THEN {}
                                  ELSE {"auto_blocked_alert"},
                       !.to_user = {"auto_blocked_notice"},
                       !.interpolated = {Shown(ud1.full_name, TRUE)}],
                   FALSE)
       ELSE LET ticket_was_resolved == ud.ticket_status = "resolved"
                ud1 == IF ticket_was_resolved
                       THEN [ud EXCEPT !.operator_replied = FALSE]
                       ELSE ud
                should_reset_icon ==
                    ticket_was_resolved \/ ~ud1.operator_replied
            IN RelayToTopic(c, ud1, ticket_was_resolved, should_reset_icon, in)

\* The event just processed, with the row and the jobs it started from.
Processed(out) ==
    [ev |-> out,
     pre |-> IF out.user \in DOMAIN users THEN users[out.user] ELSE NoUser,
     pre_jobs |-> jobs, pre_topics |-> topics, pre_next |-> nextTopic,
     pre_links |-> links]

\* Installs the world a handler leaves as the next state.
Apply(r) ==
    /\ ~r.overflow
    /\ users' = r.c.users
    /\ jobs' = r.c.jobs
    /\ topics' = r.c.topics
    /\ nextTopic' = r.c.next
    /\ links' = r.c.links
    /\ last' = Processed(r.out)
    /\ UNCHANGED <<reminders_enabled, tasks>>

\* The same, keeping the message the handler was given in tasks.
ApplyWith(r, in) ==
    /\ ~r.overflow
    /\ users' = r.c.users
    /\ jobs' = r.c.jobs
    /\ topics' = r.c.topics
    /\ nextTopic' = r.c.next
    /\ links' = r.c.links
    /\ last' = Processed(r.out)
    /\ tasks' = in
    /\ UNCHANGED reminders_enabled

\* What one private message brings with it.
MessageInputs ==
    [name : Names, high : 0..1, medium : 0..2, gratitude : BOOLEAN,
     r : {"ok", "err"}, mid : MsgIds, now : Times]

\* A private message of user u: middleware, then handle_incoming_message.
UserMessage(u, in) ==
    LET mw == RedisMiddleware(Ctx(users, jobs, topics, nextTopic, links),
                              u, in.name)
    IN Apply(handle_incoming_message(mw.c, mw.ud, in))

\* Window.main_menu: the greeting is formatted with the name of the live
\* profile (the one the middleware just stored) and sent; then the topic
\* of the user is looked up or created.
main_menu(c, ud) ==
    IF ud.message_thread_id = None /\ c.next > TopicBound(c)
    THEN Res(c, Event("main_menu", ud.id), TRUE)
    ELSE LET g == get_or_create_forum_topic(c, ud)
         IN Res(g.c,
                [Event("main_menu", ud.id) EXCEPT
                    !.thread = g.thread,
                    !.to_user = {"main_menu"},
                    !.interpolated = {Shown(ud.full_name, FALSE)}],
                FALSE)

\* The main menu shown to user u in the private chat.
MainMenu(u, name) ==
    LET mw == RedisMiddleware(Ctx(users, jobs, topics, nextTopic, links),
                              u, name)
    IN Apply(main_menu(mw.c, mw.ud))

\* ------------------------------------------------- staff group: messages

\* What a staff message brings with it: whether its text is a command,
\* what copy_to answers ("blocked": TelegramAPIError naming the block,
\* "api_err": any other TelegramAPIError, "exc": any other exception), its
\* own message id and the ids of the copies (one for a plain message, one
\* per item for an album).
StaffInputs ==
    [command : BOOLEAN, r : {"ok", "blocked", "api_err", "exc"},
     mid : MsgIds, sent : SUBSET MsgIds \ {{}}]

\* The staff message handler without the silent mode return of lines 82-84.
staff_message_body_no_silent_check(c, user_data, in) ==
    IF user_data = NoUser
       THEN Res(c, Event("staff_message", None), FALSE)
       ELSE IF in.command
       THEN Res(c, [Event("staff_message", user_data.id) EXCEPT
                       !.command = TRUE], FALSE)
       ELSE LET ud2 == [user_data EXCEPT !.awaiting_reply = FALSE]
            IN Res([c EXCEPT !.users = update_user(@, ud2.id, ud2),
                             !.jobs = cancel_support_reminder(@, ud2.id)],
                   [Event("staff_message", ud2.id) EXCEPT
                       !.copied = (in.r = "ok"), !.delivery = in.r],
                   FALSE)

\* The staff message handler that changes the icon on the first reply but
\* leaves operator_replied as it was.
staff_message_body_no_operator_flag(c, user_data, in) ==
    IF user_data = NoUser
       THEN Res(c, Event("staff_message", None), FALSE)
       ELSE IF in.command
       THEN Res(c, [Event("staff_message", user_data.id) EXCEPT
                       !.command = TRUE], FALSE)
       ELSE IF user_data.message_silent_mode
       THEN Res(c, Event("staff_message", user_data.id), FALSE)
       ELSE LET ln == IF in.r = "ok"
                      THEN add_message_links(c.links, in.mid, user_data.id,
                                             in.sent)
                      ELSE c.links
                text == IF in.r = "blocked" THEN "blocked_by_user"
                        ELSE IF in.r = "exc" THEN "message_not_sent"
                        ELSE "message_sent_to_user"
                first == user_data.ticket_status # "resolved"
                           /\ ~user_data.operator_replied
                ud2 == [user_data EXCEPT !.awaiting_reply = FALSE]
            IN Res([c EXCEPT !.users = update_user(@, ud2.id, ud2),
                             !.jobs = cancel_support_reminder(@, ud2.id),
                             !.links = ln],
                   [Event("staff_message", ud2.id) EXCEPT
                       !.copied = (in.r = "ok"),
                       !.delivery = in.r,
                       !.confirmation = text,
                       !.icon = IF first THEN "active" ELSE "none"],
                   FALSE)

\* The staff message handler without the status check of line 124.
staff_message_body_flags_resolved(c, user_data, in) ==
    IF user_data = NoUser
       THEN Res(c, Event("staff_message", None), FALSE)
       ELSE IF in.command
       THEN Res(c, [Event("staff_message", user_data.id) EXCEPT
                       !.command = TRUE], FALSE)
       ELSE IF user_data.message_silent_mode
       THEN Res(c, Event("staff_message", user_data.id), FALSE)
       ELSE LET ln == IF in.r = "ok"
                      THEN add_message_links(c.links, in.mid, user_data.id,
                                             in.sent)
                      ELSE c.links
                text == IF in.r = "blocked" THEN "blocked_by_user"
                        ELSE IF in.r = "exc" THEN "message_not_sent"
                        ELSE "message_sent_to_user"
                first == ~user_data.operator_replied
                ud1 == IF first
                       THEN [user_data EXCEPT !.operator_replied = TRUE]
                       ELSE user_data
                ud2 == [ud1 EXCEPT !.awaiting_reply = FALSE]
            IN Res([c EXCEPT !.users = update_user(@, ud2.id, ud2),
                             !.jobs = cancel_support_reminder(@, ud2.id),
                             !.links = ln],
                   [Event("staff_message", ud2.id) EXCEPT
                       !.copied = (in.r = "ok"),
                       !.delivery = in.r,
                       !.confirmation = text,
                       !.icon = IF first THEN "active" ELSE "none"],
                   FALSE)

\* Handler of a staff message posted in a topic, from line 79 on, with the
\* user_data read at line 76.
staff_message_body(c, user_data, in) ==
    IF user_data = NoUser
       THEN Res(c, Event("staff_message", None), FALSE)
       ELSE IF in.command
       THEN Res(c, [Event("staff_message", user_data.id) EXCEPT
                       !.command = TRUE], FALSE)
       ELSE IF user_data.message_silent_mode
       THEN Res(c, Event("staff_message", user_data.id), FALSE)
       ELSE LET ln == IF in.r = "ok"
                      THEN add_message_links(c.links, in.mid, user_data.id,
                                             in.sent)
                      ELSE c.links
                text == IF in.r = "blocked" THEN "blocked_by_user"
                        ELSE IF in.r = "exc" THEN "message_not_sent"
                        ELSE "message_sent_to_user"
                first == user_data.ticket_status # "resolved"
                           /\ ~user_data.operator_replied
                ud1 == IF first
                       THEN [user_data EXCEPT !.operator_replied = TRUE]
                       ELSE user_data
                ud2 == [ud1 EXCEPT !.awaiting_reply = FALSE]
            IN Res([c EXCEPT !.users = update_user(@, ud2.id, ud2),
                             !.jobs = cancel_support_reminder(@, ud2.id),
                             !.links = ln],
                   [Event("staff_message", ud2.id) EXCEPT
                       !.copied = (in.r = "ok"),
                       !.delivery = in.r,
                       !.confirmation = text,
                       !.icon = IF first THEN "active" ELSE "none"],
                   FALSE)

\* Handler of a staff message posted in topic tid.
staff_message(c, tid, in) ==
    staff_message_body(c, get_by_message_thread_id(c.users, tid), in)

\* ------------------------------------------------- staff group: commands

\* /silent: the marker message is the reply; when the reply fails while
\* enabling, msg is unbound and the handler ends before the write.
silent(c, tid, reply_ok, mid) ==
    LET user_data == get_by_message_thread_id(c.users, tid)
    IN IF user_data = NoUser
       THEN Res(c, Event("silent", None), FALSE)
       ELSE IF user_data.message_silent_mode
       THEN LET ud1 == [user_data EXCEPT !.message_silent_mode = FALSE,
                                         !.message_silent_id = None]
            IN Res([c EXCEPT !.users = update_user(@, ud1.id, ud1)],
                   Event("silent", ud1.id), FALSE)
       ELSE IF ~reply_ok
       THEN Res(c, [Event("silent", user_data.id) EXCEPT !.raised = TRUE],
                FALSE)
       ELSE LET ud1 == [user_data EXCEPT !.message_silent_mode = TRUE,
                                         !.message_silent_id = mid]
            IN Res([c EXCEPT !.users = update_user(@, ud1.id, ud1)],
                   Event("silent", ud1.id), FALSE)

\* /del that deletes the messages but leaves the links in the table.
del_keeps_links(c, tid, has_reply, target) ==
    LET user_data == get_by_message_thread_id(c.users, tid)
        linked_ids == get_message_links(c.links, target)
    IN IF user_data = NoUser
       THEN Res(c, Event("del", None), FALSE)
       ELSE IF ~has_reply
       THEN Res(c, Event("del", user_data.id), FALSE)
       ELSE IF linked_ids = {}
       THEN Res(c, [Event("del", user_data.id) EXCEPT !.target = target],
                FALSE)
       ELSE Res(c,
                [Event("del", user_data.id) EXCEPT
                    !.target = target,
                    !.deleted = linked_ids,
                    !.origin = TRUE],
                FALSE)

\* /del as a reply to the staff message target (has_reply: it is a reply):
\* the copies the user got and the target are deleted (a failed deletion
\* is suppressed) and the links of target dropped.
del(c, tid, has_reply, target) ==
    LET user_data == get_by_message_thread_id(c.users, tid)
        linked_ids == get_message_links(c.links, target)
    IN IF user_data = NoUser
       THEN Res(c, Event("del", None), FALSE)
       ELSE IF ~has_reply
       THEN Res(c, Event("del", user_data.id), FALSE)
       ELSE IF linked_ids = {}
       THEN Res(c, [Event("del", user_data.id) EXCEPT !.target = target],
                FALSE)
       ELSE Res([c EXCEPT !.links = delete_message_links(@, target)],
                [Event("del", user_data.id) EXCEPT
                    !.target = target,
                    !.deleted = linked_ids,
                    !.origin = TRUE],
                FALSE)

\* notify_user of _resolve_ticket: True from /resolve and the panel's
\* resolve, False from /resolvequiet and the panel's resolvequiet.
notify_user(kind) == kind \in {"resolve", "set_resolve"}

\* _resolve_ticket that sends the resolution notice whatever notify_user is.
Notified_always(kind, name) ==
    [to_user |-> {"ticket_resolved_user"},
     interpolated |-> {Shown(name, TRUE)}]

\* if notify_user: _send_resolution_message(...), which greets the user by
\* the sanitized name.
Notified(kind, name) ==
    IF notify_user(kind)
    THEN [to_user |-> {"ticket_resolved_user"},
          interpolated |-> {Shown(name, TRUE)}]
    ELSE [to_user |-> {}, interpolated |-> {}]

\* _resolve_ticket that leaves the reminder job in the store.
resolve_body_no_cancel(c, user_data, kind) ==
    IF user_data = NoUser
       THEN Res(c, Event(kind, None), FALSE)
       ELSE LET ud1 == [user_data EXCEPT !.ticket_status = "resolved",
                                         !.awaiting_reply = FALSE,
                                         !.operator_replied = FALSE]
                sent == Notified(kind, ud1.full_name)
            IN Res([c EXCEPT !.users = update_user(@, ud1.id, ud1)],
                   [Event(kind, ud1.id) EXCEPT
                       !.icon = "resolved",
                       !.to_user = sent.to_user,
                       !.interpolated = sent.interpolated],
                   FALSE)

\* _resolve_ticket from line 252 on, with the user_data read at line 251.
resolve_body(c, user_data, kind) ==
    IF user_data = NoUser
       THEN Res(c, Event(kind, None), FALSE)
       ELSE LET ud1 == [user_data EXCEPT !.ticket_status = "resolved",
                                         !.awaiting_reply = FALSE,
                                         !.operator_replied = FALSE]
                sent == Notified(kind, ud1.full_name)
            IN Res([c EXCEPT !.users = update_user(@, ud1.id, ud1),
                             !.jobs = cancel_support_reminder(@, ud1.id)],
                   [Event(kind, ud1.id) EXCEPT
                       !.icon = "resolved",
                       !.to_user = sent.to_user,
                       !.interpolated = sent.interpolated],
                   FALSE)

\* _resolve_ticket, called by /resolve, /resolvequiet and the panel.
_resolve_ticket(c, tid, kind) ==
    resolve_body(c, get_by_message_thread_id(c.users, tid), kind)

\* _reopen_ticket that leaves the reminder job in the store.
_reopen_ticket_no_cancel(c, user_data, kind) ==
    LET ud1 == [user_data EXCEPT !.ticket_status = "open",
                                 !.awaiting_reply = FALSE,
                                 !.operator_replied = FALSE]
    IN Res([c EXCEPT !.users = update_user(@, ud1.id, ud1)],
           [Event(kind, ud1.id) EXCEPT !.icon = "new"], FALSE)

\* _reopen_ticket on the user_data the panel read by user id.
_reopen_ticket(c, user_data, kind) ==
    LET ud1 == [user_data EXCEPT !.ticket_status = "open",
                                 !.awaiting_reply = FALSE,
                                 !.operator_replied = FALSE]
    IN Res([c EXCEPT !.users = update_user(@, ud1.id, ud1),
                     !.jobs = cancel_support_reminder(@, ud1.id)],
           [Event(kind, ud1.id) EXCEPT !.icon = "new"], FALSE)

\* /menu: posts a panel and records its message id.
menu(c, tid, mid) ==
    LET user_data == get_by_message_thread_id(c.users, tid)
    IN IF user_data = NoUser
       THEN Res(c, Event("menu", None), FALSE)
       ELSE LET ud1 == [user_data EXCEPT !.panel_message_id = mid]
            IN Res([c EXCEPT !.users = update_user(@, ud1.id, ud1)],
                   Event("menu", ud1.id), FALSE)

\* /ban from line 366 on, with the user_data read at line 365.
ban_body(c, user_data) ==
    IF user_data = NoUser
       THEN Res(c, Event("ban", None), FALSE)
       ELSE LET ud1 == [user_data EXCEPT !.is_banned = ~@]
            IN Res([c EXCEPT !.users = update_user(@, ud1.id, ud1)],
                   Event("ban", ud1.id), FALSE)

\* /ban: toggles is_banned.
ban(c, tid) == ban_body(c, get_by_message_thread_id(c.users, tid))

\* ---------------------------------------------------- staff group: panel

PanelActions ==
    {"reply", "postpone", "set_resolve", "set_resolvequiet", "set_open",
     "quick"}

\* Tail of panel_callback: the pressed panel becomes the current one.
PersistPanel(c, u, mid) ==
    LET latest == get_user(c.users, u)
    IN IF latest = NoUser THEN c
       ELSE [c EXCEPT !.users =
                update_user(@, u, [latest EXCEPT !.panel_message_id = mid])]

\* panel_callback for a button of user u's panel, which is message mid of
\* topic tid.  "reply" stands for the buttons that only prompt or redraw
\* (reply, status_menu, status back, info).
panel_callback(c, u, tid, action, mid) ==
    LET user_data == get_user(c.users, u)
    IN IF user_data = NoUser
       THEN Res(c, [Event(action, None) EXCEPT !.not_found = TRUE], FALSE)
       ELSE IF action = "postpone"
       THEN LET ud1 == [user_data EXCEPT !.awaiting_reply = TRUE]
                c1 == [c EXCEPT
                         !.users = update_user(@, u, ud1),
                         !.jobs = schedule_support_reminder(
                                      @, u, ud1.message_thread_id)]
            IN Res(PersistPanel(c1, u, mid), Event(action, u), FALSE)
       ELSE IF action \in {"set_resolve", "set_resolvequiet"}
       THEN LET r == _resolve_ticket(c, tid, action)
            IN Res(PersistPanel(r.c, u, mid),
                   [r.out EXCEPT !.user = u], FALSE)
       ELSE IF action = "set_open"
       THEN LET r == _reopen_ticket(c, user_data, action)
            IN Res(PersistPanel(r.c, u, mid), r.out, FALSE)
       ELSE IF action = "quick"
       THEN Res(c, Event(action, u), FALSE)
       ELSE Res(PersistPanel(c, u, mid), Event(action, u), FALSE)

\* ------------------------------------------------------- reminder firing

\* send_support_reminder that does not look at ticket_status.
send_support_reminder_no_status_check(c, job) ==
    LET user_data == get_user(c.users, job.id)
    IN IF user_data = NoUser
       THEN Res(c, Event("reminder", job.id), FALSE)
       ELSE IF ~user_data.awaiting_reply
       THEN Res(c, Event("reminder", job.id), FALSE)
       ELSE IF job.message_thread_id \in c.topics
       THEN Res(c, [Event("reminder", job.id) EXCEPT !.notice = TRUE], FALSE)
       ELSE Res(c, [Event("reminder", job.id) EXCEPT !.raised = TRUE], FALSE)

\* send_support_reminder whose status check is inverted.
send_support_reminder_skips_open(c, job) ==
    LET user_data == get_user(c.users, job.id)
    IN IF user_data = NoUser
       THEN Res(c, Event("reminder", job.id), FALSE)
       ELSE IF ~user_data.awaiting_reply \/ user_data.ticket_status = "open"
       THEN Res(c, Event("reminder", job.id), FALSE)
       ELSE IF job.message_thread_id \in c.topics
       THEN Res(c, [Event("reminder", job.id) EXCEPT
                       !.notice = TRUE,
                       !.interpolated = {Shown(user_data.full_name, TRUE)}],
                FALSE)
       ELSE Res(c, [Event("reminder", job.id) EXCEPT !.raised = TRUE], FALSE)

\* send_support_reminder with the payload of the job that fired.
send_support_reminder(c, job) ==
    LET user_data == get_user(c.users, job.id)
    IN IF user_data = NoUser
       THEN Res(c, Event("reminder", job.id), FALSE)
       ELSE IF ~user_data.awaiting_reply \/ user_data.ticket_status # "open"
       THEN Res(c, Event("reminder", job.id), FALSE)
       ELSE IF job.message_thread_id \in c.topics
       THEN Res(c, [Event("reminder", job.id) EXCEPT
                       !.notice = TRUE,
                       !.interpolated = {Shown(user_data.full_name, TRUE)}],
                FALSE)
       ELSE Res(c, [Event("reminder", job.id) EXCEPT !.raised = TRUE], FALSE)

\* ---------------------------------------------------------------- actions

World == Ctx(users, jobs, topics, nextTopic, links)

StaffMessage(tid, in) ==
    /\ tid \in topics
    /\ Apply(staff_message(World, tid, in))

Silent(tid, reply_ok, mid) ==
    /\ tid \in topics
    /\ Apply(silent(World, tid, reply_ok, mid))

\* /resolve (notify_user=True) and /resolvequiet (notify_user=False)
Resolve(tid, kind) ==
    /\ tid \in topics
    /\ Apply(_resolve_ticket(World, tid, kind))

Menu(tid, mid) ==
    /\ tid \in topics
    /\ Apply(menu(World, tid, mid))

Del(tid, has_reply, target) ==
    /\ tid \in topics
    /\ Apply(del(World, tid, has_reply, target))

Ban(tid) ==
    /\ tid \in topics
    /\ Apply(ban(World, tid))

\* A button of a panel that was posted for user u in u's topic.
PanelCallback(u, action, mid) ==
    /\ users[u] # NoUser
    /\ users[u].panel_message_id # None
    /\ users[u].message_thread_id \in topics
    /\ Apply(panel_callback(World, u, users[u].message_thread_id, action, mid))

\* The scheduler runs a due job once and drops it (trigger="date").
ReminderFire(job) ==
    /\ job \in jobs
    /\ Apply(send_support_reminder([World EXCEPT !.jobs = @ \ {job}], job))

\* Staff deletes a forum topic in the client.
DeleteTopic(tid) ==
    /\ tid \in topics
    /\ topics' = topics \ {tid}
    /\ last' = Processed(Event("delete_topic", None))
    /\ UNCHANGED <<users, jobs, nextTopic, links, reminders_enabled, tasks>>

\* Nothing was processed yet.
Started ==
    [ev |-> Event("init", None), pre |-> NoUser, pre_jobs |-> {},
     pre_topics |-> {}, pre_next |-> 1, pre_links |-> {}]

Init ==
    /\ users = [u \in Users |-> NoUser]
    /\ jobs = {}
    /\ topics = {}
    /\ nextTopic = 1
    /\ links = {}
    /\ reminders_enabled \in BOOLEAN
    /\ last = Started
    /\ tasks = <<>>

Next ==
    \/ \E u \in Users, in \in MessageInputs : UserMessage(u, in)
    \/ \E tid \in TopicIds, in \in StaffInputs : StaffMessage(tid, in)
    \/ \E tid \in TopicIds, ok \in BOOLEAN, mid \in MsgIds : Silent(tid, ok, mid)
    \/ \E tid \in TopicIds, k \in {"resolve", "resolvequiet"} : Resolve(tid, k)
    \/ \E tid \in TopicIds, mid \in MsgIds : Menu(tid, mid)
    \/ \E tid \in TopicIds : Ban(tid)
    \/ \E tid \in TopicIds, re \in BOOLEAN, mid \in MsgIds : Del(tid, re, mid)
    \/ \E u \in Users, name \in Names : MainMenu(u, name)
    \/ \E u \in Users, a \in PanelActions, mid \in MsgIds : PanelCallback(u, a, mid)
    \/ \E job \in jobs : ReminderFire(job)
    \/ \E tid \in TopicIds : DeleteTopic(tid)

Spec == Init /\ [][Next]_vars

\* ------------------------------------------------ interleaved update runs
\* The dispatcher runs every update as its own asyncio task and the
\* middleware takes no lock, so handlers of one user interleave at their
\* awaits.  A handler is cut once: at the await that follows its read of the
\* row (the transport call before the write-back).

TaskIds == {1, 2}

ConcKinds == {"user_message", "main_menu", "staff_message", "resolve", "ban"}

\* Updates of the private chat; the others arrive in the user's topic.
PrivateKinds == {"user_message", "main_menu"}

\* Messages that pass the analyzer and whose delivery succeeds.
ConcMessages ==
    {m \in MessageInputs : m.high = 0 /\ m.medium = 0 /\ ~m.gratitude
                           /\ m.r = "ok" /\ m.name = 1}

ConcReplies == {i \in StaffInputs : ~i.command /\ i.r = "ok"}

ConcEvents ==
    [kind : ConcKinds, u : Users, tid : TopicIds, msg : ConcMessages,
     staff : ConcReplies]

\* The whole handler of an event, run alone on world c.
RunEvent(c, e) ==
    IF e.kind = "user_message"
    THEN LET mw == RedisMiddleware(c, e.u, e.msg.name)
         IN handle_incoming_message(mw.c, mw.ud, e.msg)
    ELSE IF e.kind = "main_menu"
    THEN LET mw == RedisMiddleware(c, e.u, e.msg.name)
         IN main_menu(mw.c, mw.ud)
    ELSE IF e.kind = "staff_message" THEN staff_message(c, e.tid, e.staff)
    ELSE IF e.kind = "resolve" THEN _resolve_ticket(c, e.tid, "resolve")
    ELSE ban(c, e.tid)

\* First half: up to the await after the row was read.
ReadHalf(c, e) ==
    IF e.kind \in PrivateKinds
    THEN RedisMiddleware(c, e.u, e.msg.name)
    ELSE [c |-> c, ud |-> get_by_message_thread_id(c.users, e.tid)]

\* Second half: the rest of the handler on the row it holds.
WriteHalf(c, e, ud) ==
    IF e.kind = "user_message" THEN handle_incoming_message(c, ud, e.msg)
    ELSE IF e.kind = "main_menu" THEN main_menu(c, ud)
    ELSE IF e.kind = "staff_message" THEN staff_message_body(c, ud, e.staff)
    ELSE IF e.kind = "resolve" THEN resolve_body(c, ud, "resolve")
    ELSE ban_body(c, ud)

\* Worlds the interleaved runs start from: nothing stored yet; the first
\* message of user 1 was relayed; then staff replied; then staff resolved.
EmptyWorld == Ctx([u \in Users |-> NoUser], {}, {}, 1, {})

FirstMessage == CHOOSE m \in ConcMessages : TRUE

Relayed1 ==
    LET mw == RedisMiddleware(EmptyWorld, 1, FirstMessage.name)
    IN handle_incoming_message(mw.c, mw.ud, FirstMessage).c

Replied1 ==
    staff_message(Relayed1, 1, CHOOSE i \in ConcReplies : TRUE).c

Resolved1 == _resolve_ticket(Replied1, 1, "resolve").c

NewTask == [pc |-> "new", ev |-> CHOOSE e \in ConcEvents : TRUE, ud |-> NoUser]

InitConc ==
    /\ reminders_enabled \in BOOLEAN
    /\ \E w \in {EmptyWorld, Relayed1, Replied1, Resolved1} :
          /\ users = w.users
          /\ jobs = w.jobs
          /\ topics = w.topics
          /\ nextTopic = w.next
          /\ links = w.links
          /\ tasks = [start |-> w, run |-> [t \in TaskIds |-> NewTask]]
          /\ last = [Started EXCEPT !.pre_topics = w.topics,
                                    !.pre_next = w.next,
                                    !.pre_links = w.links]

\* Task t takes an update about a user's ticket and reads the row: an
\* update of the user's private chat, or one posted in the user's topic.
TaskRead(t, e) ==
    /\ tasks.run[t].pc = "new"
    /\ IF e.kind \in PrivateKinds
       THEN e.tid = 1
       ELSE /\ e.tid \in topics
            /\ users[e.u] # NoUser /\ users[e.u].message_thread_id = e.tid
    /\ LET h == ReadHalf(World, e)
       IN /\ users' = h.c.users
          /\ tasks' = [tasks EXCEPT !.run[t] =
                          [pc |-> "loaded", ev |-> e, ud |-> h.ud]]
    /\ last' = Processed(Event("read", e.u))
    /\ UNCHANGED <<jobs, topics, nextTopic, links, reminders_enabled>>

\* Task t resumes and runs to its end, writing the row it holds.
TaskWrite(t) ==
    /\ tasks.run[t].pc = "loaded"
    /\ LET r == WriteHalf(World, tasks.run[t].ev, tasks.run[t].ud)
       IN /\ ~r.overflow
          /\ users' = r.c.users
          /\ jobs' = r.c.jobs
          /\ topics' = r.c.topics
          /\ nextTopic' = r.c.next
          /\ links' = r.c.links
          /\ last' = Processed(r.out)
    /\ tasks' = [tasks EXCEPT !.run[t].pc = "done"]
    /\ UNCHANGED reminders_enabled

NextConc ==
    \/ \E t \in TaskIds, e \in ConcEvents : TaskRead(t, e)
    \/ \E t \in TaskIds : TaskWrite(t)

SpecConc == InitConc /\ [][NextConc]_vars

\* ------------------------------------------------------ two users' tickets
\* Two users whose messages pass the analyzer, with the staff events that
\* look a ticket up by its topic.

Pair == {1, 2}

PairMessages ==
    {m \in MessageInputs : m.high = 0 /\ m.medium = 0 /\ ~m.gratitude
                           /\ m.name = 1}

InitPair ==
    /\ users = [u \in Pair |-> NoUser]
    /\ jobs = {}
    /\ topics = {}
    /\ nextTopic = 1
    /\ links = {}
    /\ reminders_enabled = TRUE
    /\ last = Started
    /\ tasks = <<>>

NextPair ==
    \/ \E u \in Pair, in \in PairMessages : UserMessage(u, in)
    \/ \E u \in Pair : MainMenu(u, 1)
    \/ \E tid \in topics, in \in ConcReplies : StaffMessage(tid, in)
    \/ \E tid \in topics : Resolve(tid, "resolve")
    \/ \E tid \in topics : DeleteTopic(tid)

SpecPair == InitPair /\ [][NextPair]_vars

\* ------------------------------------------------- links of one ticket
\* The staff messages of one topic and their copies: two message ids on each
\* side, so that a staff message can have several copies (an album) and two
\* staff messages can have links at the same time.

LinkIds == {1, 2}

LinkInputs ==
    [command : {FALSE}, r : {"ok", "api_err"}, mid : LinkIds,
     sent : SUBSET LinkIds \ {{}}]

InitLinks ==
    /\ reminders_enabled \in BOOLEAN
    /\ users = Relayed1.users
    /\ jobs = Relayed1.jobs
    /\ topics = Relayed1.topics
    /\ nextTopic = Relayed1.next
    /\ links = Relayed1.links
    /\ last = [Started EXCEPT !.pre_topics = Relayed1.topics,
                              !.pre_next = Relayed1.next]
    /\ tasks = <<>>

NextLinks ==
    \/ \E tid \in topics, in \in LinkInputs : StaffMessage(tid, in)
    \/ \E tid \in topics, re \in BOOLEAN, target \in LinkIds :
          Del(tid, re, target)

SpecLinks == InitLinks /\ [][NextLinks]_vars

\* ------------------------------------------- callbacks of the staff group
\* The callback queries the staff group can send: a button of a panel
\* ("support_panel:<action>:<user id>") and a button of the quick-reply
\* list ("qr:send:<item id>").  A panel names any user id, a quick-reply
\* button any item id: the buttons stay in the chat when rows are gone.
\* User 1 has a ticket, user 2 never wrote.  tasks holds the quick-reply
\* catalog (the ids in table quick_reply_items) and the callback taken last.

PANEL_NAMESPACE == "support_panel"

ItemIds == {1, 2}

CallbackQueries ==
    {q \in [prefix : {PANEL_NAMESPACE, "qr:send:"}, action : PanelActions,
            user : Pair, item : ItemIds, thread : TopicIds, mid : MsgIds] :
        /\ q.prefix = PANEL_NAMESPACE => q.item = 1
        /\ q.prefix = "qr:send:" => q.action = "quick" /\ q.user = 1}

NoCall ==
    [prefix |-> "none", action |-> "quick", user |-> 1, item |-> 1,
     thread |-> 1, mid |-> 1]

\* QuickReplyStorage.get_item: the item, or nothing
get_item(catalog, item_id) == IF item_id \in catalog THEN item_id ELSE None

\* The button of a quick-reply list: the item goes to the user and into
\* the topic.
quick_reply_send(c, catalog, call) ==
    LET user_data == get_by_message_thread_id(c.users, call.thread)
    IN IF user_data = NoUser
       THEN Res(c, [Event("qr_send", None) EXCEPT !.not_found = TRUE], FALSE)
       ELSE IF get_item(catalog, call.item) = None
       THEN Res(c, [Event("qr_send", user_data.id) EXCEPT !.not_found = TRUE],
                FALSE)
       ELSE Res(c, [Event("qr_send", user_data.id) EXCEPT
                       !.to_user = {"quick_reply"},
                       !.posted = {"quick_reply"}],
                FALSE)

\* router.callback_query.filter(...): checked before any handler of the
\* router; the callback comes from a topic of the staff group.
callback_query_filter(call) == call.prefix = PANEL_NAMESPACE

\* The callback handlers of the router in the order they are registered,
\* each with its own filter.
callback_query_handlers == <<"panel_callback", "quick_reply_send">>

handler_filter(h, call) ==
    IF h = "panel_callback" THEN TRUE ELSE call.prefix = "qr:send:"

\* The router takes a callback query: root filters, then the first handler
\* whose filters pass.  A callback nothing handles gets no answer.
callback_query(c, catalog, call) ==
    LET passing == {i \in DOMAIN callback_query_handlers :
                       handler_filter(callback_query_handlers[i], call)}
        first == CHOOSE i \in passing : \A j \in passing : i <= j
    IN IF ~callback_query_filter(call) \/ passing = {}
       THEN Res(c, Event("unhandled", None), FALSE)
       ELSE IF callback_query_handlers[first] = "panel_callback"
       THEN panel_callback(c, call.user, call.thread, call.action, call.mid)
       ELSE quick_reply_send(c, catalog, call)

CallbackQuery(call) ==
    /\ call.thread \in topics
    /\ ApplyWith(callback_query(World, tasks.catalog, call),
                 [catalog |-> tasks.catalog, call |-> call])

\* The admin adds an item to the catalog or deletes one.
AddItem(i) ==
    /\ tasks' = [catalog |-> tasks.catalog \cup {i}, call |-> NoCall]
    /\ last' = Processed(Event("add_item", None))
    /\ UNCHANGED <<users, jobs, topics, nextTopic, links, reminders_enabled>>

DeleteItem(i) ==
    /\ tasks' = [catalog |-> tasks.catalog \ {i}, call |-> NoCall]
    /\ last' = Processed(Event("delete_item", None))
    /\ UNCHANGED <<users, jobs, topics, nextTopic, links, reminders_enabled>>

InitCallback ==
    /\ reminders_enabled \in BOOLEAN
    /\ users = [u \in Pair |-> IF u = 1 THEN Relayed1.users[1] ELSE NoUser]
    /\ jobs = Relayed1.jobs
    /\ topics = Relayed1.topics
    /\ nextTopic = Relayed1.next
    /\ links = Relayed1.links
    /\ last = [Started EXCEPT !.pre_topics = Relayed1.topics,
                              !.pre_next = Relayed1.next]
    /\ tasks = [catalog |-> {}, call |-> NoCall]

NextCallback ==
    \/ \E call \in CallbackQueries : CallbackQuery(call)
    \/ \E i \in ItemIds : AddItem(i)
    \/ \E i \in ItemIds : DeleteItem(i)
    \/ \E tid \in topics, in \in ConcReplies : StaffMessage(tid, in)

SpecCallback == InitCallback /\ [][NextCallback]_vars

\* ------------------------------------------- one ticket, message on record
\* The ticket of one user, with the private message handled last kept in
\* tasks: what the analyzer found in it, whether it is a gratitude phrase
\* and what the transport answered.

InputMessages == {m \in MessageInputs : m.name = 1}

\* A private message of user u, kept on record.
UserMessageIn(u, in) ==
    LET mw == RedisMiddleware(World, u, in.name)
    IN ApplyWith(handle_incoming_message(mw.c, mw.ud, in), in)

InitInput ==
    /\ users = [u \in Users |-> NoUser]
    /\ jobs = {}
    /\ topics = {}
    /\ nextTopic = 1
    /\ links = {}
    /\ reminders_enabled \in BOOLEAN
    /\ last = Started
    /\ tasks = CHOOSE m \in InputMessages : TRUE

NextInput ==
    \/ \E u \in Users, in \in InputMessages : UserMessageIn(u, in)
    \/ \E tid \in topics, in \in ConcReplies : StaffMessage(tid, in)
    \/ \E tid \in topics, k \in {"resolve", "resolvequiet"} : Resolve(tid, k)
    \/ \E tid \in topics : Ban(tid)
    \/ \E tid \in topics : DeleteTopic(tid)

SpecInput == InitInput /\ [][NextInput]_vars

\* ------------------------------------------------ display name sanitizer
\* A display name is a string over five kinds of character: a letter "a",
\* a separator ".", the "@" sign, a blank " ", and "L", which stands for
\* one whole match of a SENSITIVE_SANITIZERS pattern (a link, tg://, t.me,
\* joinchat or a spelling of telegram).  value is None or a string.

\* Longest free part of a name; the rest of a name is a run of letters.
MaxTail == 3

\* sanitized[:64]
MaxNameLen == 64

NameChars == {"a", ".", "@", " ", "L"}

\* SEPARATOR_CLASS: SEPARATOR_CHARS and \s
SEPARATOR_CLASS == {".", " "}

\* \s
Whitespace == {" "}

NoneValue == [none |-> TRUE, s |-> <<>>]
Str(s) == [none |-> FALSE, s |-> s]

\* A run of n letters.
Pad(n) == [i \in 1..n |-> "a"]

Tails == UNION {[1..n -> NameChars] : n \in 0..MaxTail}

\* Names around the length at which the result is cut.
PadLens == {0, MaxNameLen - 1, MaxNameLen, MaxNameLen + 1}

NameValues ==
    {NoneValue}
        \cup {Str(Pad(k) \o t) : k \in PadLens, t \in Tails}
        \cup {Str(t \o Pad(k)) : k \in PadLens, t \in Tails}

\* The placeholder argument: empty, or a text that is no possible name.
Placeholders == {<<>>, <<"p">>}

\* pattern.sub(" ", sanitized) for every pattern of SENSITIVE_SANITIZERS
sub_sensitive(s) == [i \in 1..Len(s) |-> IF s[i] = "L" THEN " " ELSE s[i]]

\* sanitized.replace("@", " ")
replace_at(s) == [i \in 1..Len(s) |-> IF s[i] = "@" THEN " " ELSE s[i]]

\* re.sub(cls + "+", " ", s): every maximal run of characters of cls
\* becomes one blank.
RECURSIVE re_sub_runs(_, _)
re_sub_runs(s, cls) ==
    IF s = <<>> THEN <<>>
    ELSE IF Head(s) \notin cls THEN <<Head(s)>> \o re_sub_runs(Tail(s), cls)
    ELSE IF Len(s) > 1 /\ s[2] \in cls THEN re_sub_runs(Tail(s), cls)
    ELSE <<" ">> \o re_sub_runs(Tail(s), cls)

RECURSIVE lstrip(_)
lstrip(s) == IF s # <<>> /\ Head(s) \in Whitespace THEN lstrip(Tail(s)) ELSE s

RECURSIVE rstrip(_)
rstrip(s) ==
    IF s # <<>> /\ s[Len(s)] \in Whitespace
    THEN rstrip(SubSeq(s, 1, Len(s) - 1)) ELSE s

\* str.strip()
strip(s) == rstrip(lstrip(s))

\* sanitize_display_name without the fallback for a name of which nothing
\* is left.
sanitize_display_name_no_fallback(value, placeholder) ==
    IF value.none \/ value.s = <<>> THEN placeholder
    ELSE LET s1 == replace_at(sub_sensitive(value.s))
             s2 == re_sub_runs(s1, SEPARATOR_CLASS)
             sanitized == strip(re_sub_runs(s2, Whitespace))
         IN SubSeq(sanitized, 1, IF Len(sanitized) < MaxNameLen
                                 THEN Len(sanitized) ELSE MaxNameLen)

\* sanitize_display_name(value, placeholder=...)
sanitize_display_name(value, placeholder) ==
    IF value.none \/ value.s = <<>> THEN placeholder
    ELSE LET s1 == replace_at(sub_sensitive(value.s))
             s2 == re_sub_runs(s1, SEPARATOR_CLASS)
             sanitized == strip(re_sub_runs(s2, Whitespace))
         IN IF sanitized = <<>> THEN placeholder
            ELSE SubSeq(sanitized, 1, IF Len(sanitized) < MaxNameLen
                                      THEN Len(sanitized) ELSE MaxNameLen)

\* One call of the sanitizer; tasks holds its arguments and its result.
InitSanitize ==
    /\ users = [u \in Users |-> NoUser]
    /\ jobs = {}
    /\ topics = {}
    /\ nextTopic = 1
    /\ links = {}
    /\ reminders_enabled = TRUE
    /\ last = Started
    /\ tasks \in {[value |-> v, placeholder |-> p, result |-> <<>>,
                   done |-> FALSE] : v \in NameValues, p \in Placeholders}

Sanitize ==
    /\ ~tasks.done
    /\ tasks' = [tasks EXCEPT
                    !.result = sanitize_display_name(tasks.value,
                                                     tasks.placeholder),
                    !.done = TRUE]
    /\ UNCHANGED <<users, jobs, topics, nextTopic, links, reminders_enabled,
                   last>>

NextSanitize == Sanitize

SpecSanitize == InitSanitize /\ [][NextSanitize]_vars

\* -------------------------------------------------- rows of table users
\* update_user and get_user on the SQLite table itself: a row holds the
\* booleans as 0/1 integers, and NULL (None) in the nullable columns.

\* int(bool(x))
int_bool(x) == IF x THEN 1 ELSE 0

\* bool(row[...]) of an integer column
bool_int(n) == n # 0

\* No row with the id.
NoRow == [id |-> None]

\* UserData objects: every combination of the nullable ids, the flags and
\* the status.
UserRecords ==
    [id : Users,
     message_thread_id : {None} \cup TopicIds,
     message_silent_id : {None} \cup MsgIds,
     message_silent_mode : BOOLEAN,
     full_name : {1},
     username : {None, 1},
     state : {1},
     is_banned : BOOLEAN,
     language_code : {None, 1},
     ticket_status : {"open", "resolved"},
     awaiting_reply : BOOLEAN,
     last_user_message_at : {None} \cup Times,
     created_at : Times,
     panel_message_id : {None} \cup MsgIds,
     operator_replied : BOOLEAN]

\* The parameter tuple of the INSERT, by column.
_user_params(data) ==
    [id |-> data.id,
     message_thread_id |-> data.message_thread_id,
     message_silent_id |-> data.message_silent_id,
     message_silent_mode |-> int_bool(data.message_silent_mode),
     full_name |-> data.full_name,
     username |-> data.username,
     state |-> data.state,
     is_banned |-> int_bool(data.is_banned),
     language_code |-> data.language_code,
     ticket_status |-> data.ticket_status,
     awaiting_reply |-> int_bool(data.awaiting_reply),
     last_user_message_at |-> data.last_user_message_at,
     created_at |-> data.created_at,
     panel_message_id |-> data.panel_message_id,
     operator_replied |-> int_bool(data.operator_replied)]

_row_to_user(row) ==
    [message_thread_id |-> row.message_thread_id,
     message_silent_id |-> row.message_silent_id,
     message_silent_mode |-> bool_int(row.message_silent_mode),
     id |-> row.id,
     full_name |-> row.full_name,
     username |-> row.username,
     state |-> row.state,
     is_banned |-> bool_int(row.is_banned),
     language_code |-> row.language_code,
     ticket_status |-> row.ticket_status,
     awaiting_reply |-> bool_int(row.awaiting_reply),
     last_user_message_at |-> row.last_user_message_at,
     created_at |-> row.created_at,
     panel_message_id |-> row.panel_message_id,
     operator_replied |-> bool_int(row.operator_replied)]

\* An upsert whose ON CONFLICT clause does not list panel_message_id.
upsert_keeps_panel(table, p) ==
    IF table[p.id] = NoRow THEN [table EXCEPT ![p.id] = p]
    ELSE [table EXCEPT ![p.id] =
             [p EXCEPT !.panel_message_id = table[p.id].panel_message_id]]

\* INSERT INTO users (...) VALUES (...) ON CONFLICT(id) DO UPDATE SET every
\* other column = excluded.column
upsert(table, p) == [table EXCEPT ![p.id] = p]

\* RedisStorage.update_user(id_, data): the row is keyed by data.id.
RedisStorage_update_user(table, id_, data) == upsert(table, _user_params(data))

\* RedisStorage.get_user(id_)
RedisStorage_get_user(table, id_) ==
    IF table[id_] = NoRow THEN NoUser ELSE _row_to_user(table[id_])

\* Rows the table may hold before the upsert: none, or a ticket with no
\* null column and all its flags set or all its flags clear.
StoredBefore ==
    {d \in UserRecords :
        /\ None \notin {d.message_thread_id, d.message_silent_id,
                        d.panel_message_id, d.last_user_message_at,
                        d.username, d.language_code}
        /\ d.message_thread_id = d.panel_message_id
        /\ d.ticket_status = "open"
        /\ d.message_silent_mode = d.is_banned
        /\ d.is_banned = d.awaiting_reply
        /\ d.awaiting_reply = d.operator_replied}

InitStore ==
    /\ users = [u \in Users |-> NoUser]
    /\ jobs = {}
    /\ topics = {}
    /\ nextTopic = 1
    /\ links = {}
    /\ reminders_enabled = TRUE
    /\ last = Started
    /\ \E data \in UserRecords :
          \E table \in {[u \in Users |-> NoRow]}
                          \cup {[u \in Users |-> _user_params(d)] :
                                  d \in StoredBefore} :
             tasks = [table |-> table, data |-> data, got |-> NoUser,
                      pc |-> "start"]

\* await redis.update_user(data.id, data)
Upsert ==
    /\ tasks.pc = "start"
    /\ tasks' = [tasks EXCEPT
                    !.table = RedisStorage_update_user(@, tasks.data.id,
                                                       tasks.data),
                    !.pc = "stored"]
    /\ UNCHANGED <<users, jobs, topics, nextTopic, links, reminders_enabled,
                   last>>

\* await redis.get_user(data.id)
Get ==
    /\ tasks.pc = "stored"
    /\ tasks' = [tasks EXCEPT
                    !.got = RedisStorage_get_user(tasks.table, tasks.data.id),
                    !.pc = "got"]
    /\ UNCHANGED <<users, jobs, topics, nextTopic, links, reminders_enabled,
                   last>>

NextStore == Upsert \/ Get

SpecStore == InitStore /\ [][NextStore]_vars

\* ------------------------------------------------------------ FSM store
\* Table fsm: key -> [state, data], data being JSON text.  A state is the
\* name of a dialogue step (1, 2) or None; a dict is given by its keys.
\* tasks holds the table, the table before the last call, and the call.

StorageKeys == [bot_id : {1}, chat_id : {1, 2}, user_id : {3}]

StateNames == {1, 2}

Dicts == SUBSET {"value", "step"}

\* KeyBuilder.build: the parts of the key in one string
_build_key(key) == <<"fsm", key.bot_id, key.chat_id, key.user_id>>

json_dumps(d) == [json |-> d]

json_loads(raw) == raw.json

\* SELECT state, data FROM fsm WHERE key = ?
_get_record(table, storage_key) ==
    IF table[storage_key] = NoRow
    THEN [state |-> None, data |-> {}]
    ELSE [state |-> table[storage_key].state,
          data |-> json_loads(table[storage_key].data)]

\* _maybe_cleanup that never deletes.
_maybe_cleanup_never(table, storage_key, state, data) ==
    [done |-> FALSE, table |-> table]

\* The row is deleted when nothing is left to keep.
_maybe_cleanup(table, storage_key, state, data) ==
    IF state = None /\ data = {}
    THEN [done |-> TRUE, table |-> [table EXCEPT ![storage_key] = NoRow]]
    ELSE [done |-> FALSE, table |-> table]

set_state(table, key, state) ==
    LET storage_key == _build_key(key)
        current_data == _get_record(table, storage_key).data
        cl == _maybe_cleanup(table, storage_key, state, current_data)
    IN IF cl.done THEN cl.table
       ELSE IF table[storage_key] = NoRow
       THEN [table EXCEPT ![storage_key] =
                [state |-> state, data |-> json_dumps({})]]
       ELSE [table EXCEPT ![storage_key].state = state]

get_state(table, key) ==
    IF table[_build_key(key)] = NoRow THEN None
    ELSE table[_build_key(key)].state

set_data(table, key, data) ==
    LET storage_key == _build_key(key)
        current_state == _get_record(table, storage_key).state
        cl == _maybe_cleanup(table, storage_key, current_state, data)
    IN IF cl.done THEN cl.table
       ELSE IF table[storage_key] = NoRow
       THEN [table EXCEPT ![storage_key] =
                [state |-> None, data |-> json_dumps(data)]]
       ELSE [table EXCEPT ![storage_key].data = json_dumps(data)]

get_data(table, key) ==
    IF table[_build_key(key)] = NoRow THEN {}
    ELSE json_loads(table[_build_key(key)].data)

FsmIdle ==
    /\ users = [u \in Users |-> NoUser]
    /\ jobs = {}
    /\ topics = {}
    /\ nextTopic = 1
    /\ links = {}
    /\ reminders_enabled = TRUE
    /\ last = Started

InitFsm ==
    /\ FsmIdle
    /\ tasks = [fsm |-> [k \in {_build_key(key) : key \in StorageKeys} |-> NoRow],
                pre |-> [k \in {_build_key(key) : key \in StorageKeys} |-> NoRow],
                op |-> "none", key |-> CHOOSE k \in StorageKeys : TRUE,
                state |-> None, data |-> {}]

SetState(key, state) ==
    /\ tasks' = [fsm |-> set_state(tasks.fsm, key, state), pre |-> tasks.fsm,
                 op |-> "set_state", key |-> key, state |-> state,
                 data |-> {}]
    /\ UNCHANGED <<users, jobs, topics, nextTopic, links, reminders_enabled,
                   last>>

SetData(key, data) ==
    /\ tasks' = [fsm |-> set_data(tasks.fsm, key, data), pre |-> tasks.fsm,
                 op |-> "set_data", key |-> key, state |-> None,
                 data |-> data]
    /\ UNCHANGED <<users, jobs, topics, nextTopic, links, reminders_enabled,
                   last>>

NextFsm ==
    \/ \E key \in StorageKeys, state \in StateNames \cup {None} :
          SetState(key, state)
    \/ \E key \in StorageKeys, data \in Dicts : SetData(key, data)

SpecFsm == InitFsm /\ [][NextFsm]_vars

\* ------------------------------------------------------- settings store
\* Table settings: key -> value.  A key is a string, written as the
\* sequence of its parts; a value is one of two texts (1, 2), None when the
\* key has no row.  tasks holds the table, the overrides that were set and
\* not reset since (per kind and language), the rows other code put under
\* other keys, and the call made last.

GREETING_PREFIX == <<"greeting", ":">>

RESOLVED_PREFIX == <<"resolved_message", ":">>

Languages == {<<"en">>, <<"ru">>}

Texts == {1, 2}

\* Keys of other code: one that has nothing in common with the prefixes
\* and two that the LIKE patterns match (LIKE ignores the case of ASCII
\* letters and takes "_" for any character).
OtherKeys ==
    {<<"unrelated">>, <<"Greeting", ":", "en">>,
     <<"resolvedXmessage", ":", "en">>}

SettingKeys ==
    {GREETING_PREFIX \o l : l \in Languages}
        \cup {RESOLVED_PREFIX \o l : l \in Languages} \cup OtherKeys

like_part(pattern, part) ==
    \/ pattern = part
    \/ pattern = "greeting" /\ part = "Greeting"
    \/ pattern = "resolved_message" /\ part = "resolvedXmessage"

\* key LIKE 'prefix%'
like_prefix(key, prefix) ==
    /\ Len(key) >= Len(prefix)
    /\ \A i \in 1..Len(prefix) : like_part(prefix[i], key[i])

\* key.startswith(prefix)
startswith(key, prefix) ==
    /\ Len(key) >= Len(prefix)
    /\ SubSeq(key, 1, Len(prefix)) = prefix

\* _collect_prefixed that trusts the LIKE pattern.
_collect_prefixed_like_only(table, prefix) ==
    {<<SubSeq(key, Len(prefix) + 1, Len(key)), table[key]>> :
        key \in {k \in DOMAIN table :
                    table[k] # None /\ like_prefix(k, prefix)}}

\* The dict language -> value, as the set of its items.
_collect_prefixed(table, prefix) ==
    {<<SubSeq(key, Len(prefix) + 1, Len(key)), table[key]>> :
        key \in {k \in DOMAIN table :
                    /\ table[k] # None /\ like_prefix(k, prefix)
                    /\ startswith(k, prefix)}}

_get_prefixed_value(table, prefix, language) == table[prefix \o language]

_set_prefixed_value(table, prefix, language, text) ==
    [table EXCEPT ![prefix \o language] = text]

_reset_prefixed_value(table, prefix, language) ==
    [table EXCEPT ![prefix \o language] = None]

get_all_greetings(table) == _collect_prefixed(table, GREETING_PREFIX)

get_greeting(table, language) ==
    _get_prefixed_value(table, GREETING_PREFIX, language)

set_greeting(table, language, text) ==
    _set_prefixed_value(table, GREETING_PREFIX, language, text)

reset_greeting(table, language) ==
    _reset_prefixed_value(table, GREETING_PREFIX, language)

get_all_resolved_messages(table) == _collect_prefixed(table, RESOLVED_PREFIX)

get_resolved_message(table, language) ==
    _get_prefixed_value(table, RESOLVED_PREFIX, language)

set_resolved_message(table, language, text) ==
    _set_prefixed_value(table, RESOLVED_PREFIX, language, text)

reset_resolved_message(table, language) ==
    _reset_prefixed_value(table, RESOLVED_PREFIX, language)

InitSettings ==
    /\ FsmIdle
    /\ tasks = [settings |-> [k \in SettingKeys |-> None],
                greeting |-> [l \in Languages |-> None],
                resolved |-> [l \in Languages |-> None],
                other |-> [k \in OtherKeys |-> None],
                op |-> "none", language |-> <<"en">>]

Idle ==
    UNCHANGED <<users, jobs, topics, nextTopic, links, reminders_enabled,
                last>>

SetGreeting(language, text) ==
    /\ tasks' = [tasks EXCEPT
                    !.settings = set_greeting(@, language, text),
                    !.greeting[language] = text,
                    !.op = "set_greeting", !.language = language]
    /\ Idle

ResetGreeting(language) ==
    /\ tasks' = [tasks EXCEPT
                    !.settings = reset_greeting(@, language),
                    !.greeting[language] = None,
                    !.op = "reset_greeting", !.language = language]
    /\ Idle

SetResolvedMessage(language, text) ==
    /\ tasks' = [tasks EXCEPT
                    !.settings = set_resolved_message(@, language, text),
                    !.resolved[language] = text,
                    !.op = "set_resolved_message", !.language = language]
    /\ Idle

ResetResolvedMessage(language) ==
    /\ tasks' = [tasks EXCEPT
                    !.settings = reset_resolved_message(@, language),
                    !.resolved[language] = None,
                    !.op = "reset_resolved_message", !.language = language]
    /\ Idle

\* Other code writes a row under a key of its own, or deletes it.
PutOther(key, value) ==
    /\ tasks' = [tasks EXCEPT
                    !.settings[key] = value, !.other[key] = value,
                    !.op = "other"]
    /\ Idle

NextSettings ==
    \/ \E l \in Languages, t \in Texts : SetGreeting(l, t)
    \/ \E l \in Languages : ResetGreeting(l)
    \/ \E l \in Languages, t \in Texts : SetResolvedMessage(l, t)
    \/ \E l \in Languages : ResetResolvedMessage(l)
    \/ \E k \in OtherKeys, v \in {None, 1} : PutOther(k, v)

SpecSettings == InitSettings /\ [][NextSettings]_vars

\* ------------------------------------------------- reminders that fire
\* One ticket with the scheduler running: a job that is due is run.

LiveMessages == {m \in InputMessages : ~m.gratitude /\ m.medium = 0}

Fire == \E job \in jobs : ReminderFire(job)

NextLive ==
    \/ \E u \in Users, in \in LiveMessages : UserMessage(u, in)
    \/ \E tid \in topics, in \in StaffInputs : StaffMessage(tid, in)
    \/ \E tid \in topics, mid \in MsgIds : Silent(tid, TRUE, mid)
    \/ \E tid \in topics, k \in {"resolve", "resolvequiet"} : Resolve(tid, k)
    \/ \E tid \in topics : Ban(tid)
    \/ \E u \in Users, a \in PanelActions, mid \in MsgIds :
          PanelCallback(u, a, mid)
    \/ \E tid \in topics : DeleteTopic(tid)
    \/ Fire

SpecLive == Init /\ [][NextLive]_vars /\ WF_vars(Fire)

\* ------------------------------------------------------ icon of a topic
\* One ticket and the icon of its topic.  tasks holds the icon the topic
\* shows and the number of restore_topic_icon tasks that sleep: a user
\* message that reopens a resolved ticket starts one with
\* asyncio.create_task, and nothing ever cancels it.  Every
\* edit_forum_topic succeeds.

MaxRestore == 2

\* The icon after a handler that called edit_forum_topic or did not.
IconAfter(icon, out) == IF out.icon = "none" THEN icon ELSE out.icon

\* A handler that starts no task.
IconApply(r) ==
    ApplyWith(r, [tasks EXCEPT !.icon = IconAfter(@, r.out)])

\* A private message; lines 243-258 start the task when the ticket was
\* resolved and the message reopened it.
IconUserMessage(u, in) ==
    LET mw == RedisMiddleware(World, u, in.name)
        r == handle_incoming_message(mw.c, mw.ud, in)
        ticket_was_resolved ==
            mw.ud.ticket_status = "resolved" /\ r.out.relayed
                /\ get_user(r.c.users, u).ticket_status = "open"
    IN /\ ticket_was_resolved => tasks.restore < MaxRestore
       /\ ApplyWith(r, [icon |-> IconAfter(tasks.icon, r.out),
                        restore |-> IF ticket_was_resolved
                                    THEN tasks.restore + 1
                                    ELSE tasks.restore])

\* restore_topic_icon wakes up after TOPIC_ICON_RESTORE_DELAY and sets the
\* icon of a new ticket.
RestoreTopicIcon(u) ==
    /\ tasks.restore > 0
    /\ tasks' = [icon |-> "new", restore |-> tasks.restore - 1]
    /\ last' = Processed([Event("restore_topic_icon", u) EXCEPT
                              !.icon = "new"])
    /\ UNCHANGED <<users, jobs, topics, nextTopic, links, reminders_enabled>>

InitIcon ==
    /\ reminders_enabled \in BOOLEAN
    /\ users = Relayed1.users
    /\ jobs = Relayed1.jobs
    /\ topics = Relayed1.topics
    /\ nextTopic = Relayed1.next
    /\ links = Relayed1.links
    /\ last = [Started EXCEPT !.pre_topics = Relayed1.topics,
                              !.pre_next = Relayed1.next]
    /\ tasks = [icon |-> "new", restore |-> 0]

NextIcon ==
    \/ \E u \in Users, in \in LiveMessages : IconUserMessage(u, in)
    \/ \E tid \in topics, in \in StaffInputs :
          IconApply(staff_message(World, tid, in))
    \/ \E tid \in topics, k \in {"resolve", "resolvequiet"} :
          IconApply(_resolve_ticket(World, tid, k))
    \/ \E tid \in topics : IconApply(ban(World, tid))
    \/ \E u \in Users, a \in PanelActions, mid \in MsgIds :
          /\ users[u].panel_message_id # None
          /\ IconApply(panel_callback(World, u, users[u].message_thread_id,
                                      a, mid))
    \/ \E u \in Users : RestoreTopicIcon(u)

SpecIcon == InitIcon /\ [][NextIcon]_vars

\* ----------------------------------------------------------- migrations
\* The migration manager at start-up.  tasks holds the registry MIGRATIONS
\* (the versions in the order they are listed), the value of the version
\* key in table meta, and the run in progress: the migrations still to
\* run, the position inside the loop body, the version the run read, what
\* the run did so far and how the last run ended.  A release of the bot
\* lists one more migration, anywhere in the tuple.

MaxVersion == 4

MIGRATIONS == <<1, 2>>

NullMeta == [kind |-> "null", n |-> 0]

\* str(version) as stored in meta
str(version) == [kind |-> "int", n |-> version]

\* int(value), 0 when the key is missing or is not a number
_get_current_version(meta) == IF meta.kind = "int" THEN meta.n ELSE 0

_set_current_version(version) == str(version)

RECURSIVE sorted(_)
sorted(versions) ==
    IF versions = {} THEN <<>>
    ELSE LET m == CHOOSE v \in versions : \A w \in versions : v <= w
         IN <<m>> \o sorted(versions \ {m})

Listed(registry) == {registry[i] : i \in DOMAIN registry}

\* The loop of run_pending in the order of the registry.
PendingLoop_unsorted(registry, current_version) ==
    SelectSeq(registry, LAMBDA v : v > current_version)

\* The migrations run_pending loops over, in the order of the loop.
PendingLoop(registry, current_version) ==
    sorted({v \in Listed(registry) : v > current_version})

InitMigrate ==
    /\ FsmIdle
    /\ tasks = [registry |-> MIGRATIONS, meta |-> NullMeta, queue |-> <<>>,
                pc |-> "idle", start |-> 0, log |-> <<>>,
                ended |-> "never"]

\* run_pending up to the loop
RunPending ==
    /\ tasks.pc = "idle"
    /\ LET current_version == _get_current_version(tasks.meta)
           pending == PendingLoop(tasks.registry, current_version)
       IN tasks' = [tasks EXCEPT
                       !.queue = pending,
                       !.pc = IF pending = <<>> THEN "idle" ELSE "callback",
                       !.start = current_version,
                       !.log = <<>>,
                       !.ended = IF pending = <<>> THEN "completed"
                                 ELSE "running"]
    /\ Idle

\* await migration.callback(context): it returns, or it raises and the
\* exception ends run_pending.
Callback(ok) ==
    /\ tasks.pc = "callback"
    /\ tasks' = IF ok
                THEN [tasks EXCEPT
                         !.pc = "set",
                         !.log = Append(@, [op |-> "callback",
                                            version |-> Head(tasks.queue)])]
                ELSE [tasks EXCEPT
                         !.pc = "idle", !.queue = <<>>,
                         !.ended = "failed",
                         !.log = Append(@, [op |-> "raised",
                                            version |-> Head(tasks.queue)])]
    /\ Idle

\* await self._set_current_version(migration.version), then the next
\* migration of the loop.
SetCurrentVersion ==
    /\ tasks.pc = "set"
    /\ tasks' = [tasks EXCEPT
                    !.meta = _set_current_version(Head(tasks.queue)),
                    !.queue = Tail(@),
                    !.pc = IF Tail(tasks.queue) = <<>> THEN "idle"
                           ELSE "callback",
                    !.ended = IF Tail(tasks.queue) = <<>> THEN "completed"
                              ELSE "running",
                    !.log = Append(@, [op |-> "set",
                                       version |-> Head(tasks.queue)])]
    /\ Idle

\* A release that lists the next migration first or last.
Release(front) ==
    /\ tasks.pc = "idle"
    /\ Len(tasks.registry) < MaxVersion
    /\ LET version == Len(tasks.registry) + 1
       IN tasks' = [tasks EXCEPT
                       !.registry = IF front THEN <<version>> \o @
                                    ELSE Append(@, version),
                       !.ended = "released"]
    /\ Idle

NextMigrate ==
    \/ RunPending
    \/ \E ok \in BOOLEAN : Callback(ok)
    \/ SetCurrentVersion
    \/ \E front \in BOOLEAN : Release(front)

SpecMigrate == InitMigrate /\ [][NextMigrate]_vars

\* ================================================================ claims

\* The row of the user of the last event, and that user's pending jobs.
LastUser == last.ev.user
LastRow == users[LastUser]
LastJobs == UserJobs(jobs, LastUser)
HadRow == last.pre # NoUser

ResolveKinds == {"resolve", "resolvequiet", "set_resolve", "set_resolvequiet"}

\* C1: after any sequence of completed events no stored ticket is resolved
\* and awaiting a reply at the same time.
C1_ResolvedNeverAwaiting ==
    \A u \in Users :
        users[u] # NoUser =>
            ~(users[u].ticket_status = "resolved" /\ users[u].awaiting_reply)

\* C2: when two interleaved events of one user have both finished, the
\* stored row and the pending reminders are those of one of the two serial
\* orders of the same events.
C2_SerialOrderEquivalent ==
    (\A t \in TaskIds : tasks.run[t].pc = "done") =>
        LET e1 == tasks.run[1].ev
            e2 == tasks.run[2].ev
            s12 == RunEvent(RunEvent(tasks.start, e1).c, e2).c
            s21 == RunEvent(RunEvent(tasks.start, e2).c, e1).c
        IN \/ users = s12.users /\ jobs = s12.jobs
           \/ users = s21.users /\ jobs = s21.jobs

\* C3: no two handlers of the same user are both between their read of the
\* row and their write-back of it.
C3_SameUserSerialized ==
    \A t1, t2 \in TaskIds :
        (t1 # t2 /\ tasks.run[t1].pc = "loaded" /\ tasks.run[t2].pc = "loaded")
            => tasks.run[t1].ev.u # tasks.run[t2].ev.u

\* C4: a private message of a user whose stored is_banned is true is never
\* forwarded or copied to a topic.
C4_BannedNeverRelayed ==
    (last.ev.kind = "user_message" /\ HadRow /\ last.pre.is_banned)
        => ~last.ev.relayed

C4_Witness ==
    /\ last.ev.kind = "user_message"
    /\ HadRow /\ last.pre.is_banned
    /\ last.pre.message_thread_id \in topics
    /\ ~last.ev.raised

C6_ResolvePost ==
    (/\ last.ev.kind \in {"resolve", "set_resolve"}
     /\ HadRow /\ last.pre.ticket_status = "open"
     /\ UserJobs(last.pre_jobs, LastUser) # {})
        => /\ LastRow.ticket_status = "resolved"
           /\ ~LastRow.awaiting_reply
           /\ ~LastRow.operator_replied
           /\ LastJobs = {}

C6_ResolveCancelsReminder ==
    /\ []C6_ResolvePost
    /\ [][last'.ev.notice => UserJobs(jobs, last'.ev.user) # {}]_vars

C6_Witness ==
    /\ last.ev.kind \in {"resolve", "set_resolve"}
    /\ HadRow /\ last.pre.ticket_status = "open"
    /\ last.pre.awaiting_reply
    /\ UserJobs(last.pre_jobs, LastUser) # {}
    /\ LastJobs = {}

\* C7: a firing posts the notice only if the stored ticket exists, is open
\* and awaits a reply; otherwise it posts nothing; it never changes a row.
C7_FireRechecksTicket ==
    last.ev.kind = "reminder" =>
        /\ users[LastUser] = last.pre
        /\ last.ev.notice =>
              (HadRow /\ last.pre.ticket_status = "open"
                      /\ last.pre.awaiting_reply)

C7_Witness ==
    /\ last.ev.kind = "reminder"
    /\ HadRow /\ last.pre.ticket_status = "resolved"
    /\ last.pre.awaiting_reply
    /\ ~last.ev.notice

\* C8: right after a staff reply, a resolve, a reopen or a ban (manual or
\* automatic) no reminder job is pending for the user.
C8_StaleTransitionCancels ==
    (\/ last.ev.kind = "staff_message" /\ last.ev.copied
     \/ last.ev.kind \in ResolveKinds /\ last.ev.user # None
     \/ last.ev.kind = "set_open"
     \/ last.ev.kind = "ban" /\ last.ev.user # None /\ LastRow.is_banned
     \/ /\ last.ev.kind = "user_message"
        /\ HadRow => ~last.pre.is_banned
        /\ LastRow.is_banned)
        => LastJobs = {}

\* C9: at most one job is pending per user; scheduling over a pending job
\* leaves only the new one; cancelling with no job pending changes nothing
\* and raises nothing.
Scheduled ==
    \/ last.ev.kind = "postpone" /\ LastRow.message_thread_id # None
    \/ /\ last.ev.kind = "user_message" /\ last.ev.relayed
       /\ LastRow.awaiting_reply /\ reminders_enabled

Cancelled ==
    \/ last.ev.kind = "staff_message" /\ last.ev.copied
    \/ last.ev.kind \in ResolveKinds /\ last.ev.user # None
    \/ last.ev.kind = "set_open"

C9_OneJobPerUser ==
    /\ \A u \in Users : Cardinality(UserJobs(jobs, u)) <= 1
    /\ Scheduled =>
          LastJobs = {[id |-> _job_id(LastUser),
                       message_thread_id |-> LastRow.message_thread_id]}
    /\ (Cancelled /\ UserJobs(last.pre_jobs, LastUser) = {})
          => (jobs = last.pre_jobs /\ ~last.ev.raised)

C9_Witness ==
    /\ Scheduled
    /\ \E j \in UserJobs(last.pre_jobs, LastUser) : j \notin jobs
    /\ LastJobs # {}

C11_ResetAfterOperatorReply ==
    (/\ last.ev.kind = "user_message" /\ last.ev.relayed
     /\ HadRow /\ last.pre.ticket_status = "open"
     /\ last.pre.operator_replied)
        => last.ev.icon = "new"

\* C11 amended: a relayed message of a user whose ticket is open resets the
\* topic icon to the 'new' icon exactly when the operator had not replied
\* before it; after an operator reply the icon is left as it is.
C11_ResetUnlessOperatorReplied ==
    (/\ last.ev.kind = "user_message" /\ last.ev.relayed
     /\ HadRow /\ last.pre.ticket_status = "open")
        => (last.ev.icon = "new" <=> ~last.pre.operator_replied)

C11_Witness ==
    /\ last.ev.kind = "user_message" /\ last.ev.relayed
    /\ HadRow /\ last.pre.ticket_status = "open"
    /\ last.pre.operator_replied
    /\ last.ev.icon = "none"

\* C12: the topic lookup of the main menu returns the stored topic id and
\* creates nothing when the ticket has one, and otherwise creates exactly
\* one topic and stores its id; two lookups in a row for the same user
\* return the same id and the second creates nothing.
C12_EnsureTopicPost ==
    last.ev.kind = "main_menu" =>
        IF HadRow /\ last.pre.message_thread_id # None
        THEN /\ last.ev.thread = last.pre.message_thread_id
             /\ nextTopic = last.pre_next
             /\ topics = last.pre_topics
        ELSE /\ last.ev.thread = last.pre_next
             /\ nextTopic = last.pre_next + 1
             /\ topics = last.pre_topics \cup {last.ev.thread}
             /\ LastRow.message_thread_id = last.ev.thread

C12_EnsureTopicIdempotent ==
    /\ []C12_EnsureTopicPost
    /\ [][(/\ last.ev.kind = "main_menu" /\ last'.ev.kind = "main_menu"
           /\ last'.ev.user = last.ev.user)
             => (/\ last'.ev.thread = last.ev.thread
                 /\ nextTopic' = nextTopic
                 /\ topics' = topics)]_vars

C12_Witness ==
    /\ last.ev.kind = "main_menu"
    /\ HadRow /\ last.pre.message_thread_id # None
    /\ last.pre.last_user_message_at = None
    /\ last.ev.thread = last.pre.message_thread_id
    /\ nextTopic = 2

\* C13: interleaved events of one user that each need a topic create at
\* most one topic between them.
C13_OneTopicUnderRaces ==
    Cardinality(topics \ tasks.start.topics) <= 1

\* C14: no two stored tickets have the same non-null topic id, also after
\* a stale topic reference was replaced, so a ticket looked up by its
\* topic is the only one with that topic.
C14_TopicIdUnique ==
    \A u, v \in DOMAIN users :
        (/\ u # v
         /\ users[u] # NoUser /\ users[v] # NoUser
         /\ users[u].message_thread_id # None)
            => users[u].message_thread_id # users[v].message_thread_id

C14_Witness ==
    /\ last.ev.kind = "user_message" /\ last.ev.attempts = 2
    /\ last.ev.relayed
    /\ \A u \in DOMAIN users :
          users[u] # NoUser /\ users[u].message_thread_id \in topics
    /\ \E t \in topics : get_by_message_thread_id(users, t).id # LastUser

\* A message of a user who is not banned whose stored topic no longer
\* exists, and whose relay was attempted.
StaleRelay ==
    /\ last.ev.kind = "user_message" /\ last.ev.attempts > 0
    /\ HadRow
    /\ last.pre.message_thread_id # None
    /\ last.pre.message_thread_id \notin last.pre_topics

\* C15: one message makes at most two relay attempts and creates at most
\* one topic; when the stored topic is gone, exactly one replacement is
\* created, its id is stored on the ticket, and the relay is tried exactly
\* once more.
C15_HealOnce ==
    /\ last.ev.kind = "user_message" =>
          (last.ev.attempts <= 2 /\ nextTopic - last.pre_next <= 1)
    /\ StaleRelay =>
          /\ last.ev.attempts = 2
          /\ nextTopic = last.pre_next + 1
          /\ topics = last.pre_topics \cup {last.pre_next}
          /\ last.ev.thread = last.pre_next
          /\ LastRow.message_thread_id = last.pre_next

C15_Witness ==
    /\ StaleRelay
    /\ last.ev.relayed
    /\ LastRow.message_thread_id = 2

\* C16: when the retry after the replacement of a stale topic fails too,
\* the handler posts a notice of the failure on the staff side.
C16_FailedRetryNotifiesStaff ==
    (StaleRelay /\ last.ev.attempts = 2 /\ ~last.ev.relayed)
        => last.ev.posted # {}

\* The ticket the message found: the stored row, or the defaults of a
\* first contact.
TicketBefore ==
    IF HadRow THEN last.pre ELSE NewUser(LastUser, LastRow.full_name)

\* C17: a message whose relay ends with an error other than a stale topic
\* reference leaves status, awaiting_reply and last_user_message_at as they
\* were and schedules no reminder.
C17_FailedRelayCommitsNothing ==
    (/\ last.ev.kind = "user_message" /\ last.ev.attempts > 0
     /\ ~last.ev.relayed)
        => /\ LastRow.ticket_status = TicketBefore.ticket_status
           /\ LastRow.awaiting_reply = TicketBefore.awaiting_reply
           /\ LastRow.last_user_message_at = TicketBefore.last_user_message_at
           /\ jobs = last.pre_jobs

C17_Witness ==
    /\ last.ev.kind = "user_message" /\ last.ev.attempts = 1
    /\ ~last.ev.relayed /\ last.ev.raised
    /\ HadRow /\ last.pre.ticket_status = "resolved"
    /\ ~last.pre.awaiting_reply
    /\ last.pre.message_thread_id \in topics

\* C18: a staff message whose copy to the user fails with a generic
\* transport error leaves awaiting_reply and operator_replied as they were
\* and the user's pending reminder in place.
C18_FailedCopyKeepsTicket ==
    (last.ev.kind = "staff_message" /\ last.ev.delivery \in {"api_err", "exc"})
        => /\ LastRow.awaiting_reply = last.pre.awaiting_reply
           /\ LastRow.operator_replied = last.pre.operator_replied
           /\ LastJobs = UserJobs(last.pre_jobs, LastUser)

\* C19: a staff message whose copy failed is answered with the 'blocked by
\* user' text when the user blocked the bot and with the 'not sent' text
\* for every other failure, never with the success text.
C19_FailureConfirmation ==
    last.ev.kind = "staff_message" =>
        /\ last.ev.delivery = "blocked"
              => last.ev.confirmation = "blocked_by_user"
        /\ last.ev.delivery \in {"api_err", "exc"}
              => last.ev.confirmation = "message_not_sent"

\* C20: a staff message posted in the topic of a ticket in silent mode is
\* not copied to the user and changes neither the row nor the message links
\* nor the pending reminders.
C20_SilentSuppressesReply ==
    (/\ last.ev.kind = "staff_message" /\ last.ev.user # None
     /\ last.pre.message_silent_mode)
        => /\ ~last.ev.copied /\ last.ev.delivery = "none"
           /\ LastRow = last.pre
           /\ links = last.pre_links
           /\ jobs = last.pre_jobs

C20_Witness ==
    /\ last.ev.kind = "staff_message" /\ last.ev.user # None
    /\ ~last.ev.command
    /\ last.pre.message_silent_mode
    /\ last.pre.awaiting_reply /\ ~last.pre.operator_replied
    /\ LastJobs # {}
    /\ links # {}

\* A private message of a user whose stored ticket is in silent mode.
SilentInbound ==
    /\ last.ev.kind = "user_message"
    /\ HadRow /\ last.pre.message_silent_mode

Blocking == tasks.high > 0 \/ tasks.medium >= 2

\* A private message of a user who was not banned when it arrived.
Unbanned == last.ev.kind = "user_message" /\ ~TicketBefore.is_banned

\* C22: a blocking message of a non-banned user sets is_banned and clears
\* awaiting_reply, is not relayed (staff get at most the alert), leaves the
\* status as it was; and a banned user stays banned, with nothing relayed,
\* until a /ban of the staff toggles the ban off.
C22_AutoBanPost ==
    (Unbanned /\ Blocking) =>
        /\ LastRow.is_banned /\ ~LastRow.awaiting_reply
        /\ ~last.ev.relayed /\ last.ev.attempts = 0
        /\ last.ev.posted \subseteq {"auto_blocked_alert"}
        /\ LastRow.ticket_status = TicketBefore.ticket_status

C22_AutoBanSticks ==
    /\ []C22_AutoBanPost
    /\ [][\A u \in Users :
            (users[u] # NoUser /\ users[u].is_banned)
                => \/ last'.ev.kind = "ban"
                   \/ users'[u].is_banned /\ ~last'.ev.relayed]_vars

C22_Witness ==
    /\ Unbanned /\ Blocking
    /\ HadRow /\ last.pre.awaiting_reply
    /\ last.pre.message_thread_id \in topics
    /\ last.ev.posted = {"auto_blocked_alert"}
    /\ LastRow.is_banned

\* C23: a message of a non-banned user ends in the automatic ban exactly
\* when the analyzer found a high reason or at least two medium reasons; a
\* single medium reason with no high reason never bans.
C23_BlockThreshold ==
    Unbanned => (LastRow.is_banned <=> (tasks.high > 0 \/ tasks.medium >= 2))

C23_Witness ==
    /\ Unbanned
    /\ tasks.high = 0 /\ tasks.medium = 1
    /\ last.ev.relayed
    /\ ~LastRow.is_banned

\* C25: every display name put into an outgoing text went through the
\* sanitizer.
C25_NamesSanitized ==
    \A shown \in last.ev.interpolated : shown.sanitized

\* A gratitude phrase of a non-banned user whose ticket is resolved, relayed
\* to the topic.
Gratitude ==
    /\ Unbanned /\ ~Blocking
    /\ HadRow /\ last.pre.ticket_status = "resolved"
    /\ tasks.gratitude
    /\ last.ev.relayed

\* C27: a gratitude phrase on a resolved ticket only clears awaiting_reply:
\* the status stays resolved, last_user_message_at is not stamped, no
\* reminder is scheduled and the topic icon is not changed.
C27_GratitudeOnlyClearsAwaiting ==
    Gratitude =>
        /\ ~LastRow.awaiting_reply
        /\ LastRow.ticket_status = "resolved"
        /\ LastRow.last_user_message_at = last.pre.last_user_message_at
        /\ jobs = last.pre_jobs
        /\ last.ev.icon = "none"

C30_QuietResolveSilent ==
    (last.ev.kind \in ResolveKinds /\ last.ev.user # None) =>
        /\ LastRow = [last.pre EXCEPT
                         !.ticket_status = "resolved",
                         !.awaiting_reply = FALSE,
                         !.operator_replied = FALSE,
                         !.panel_message_id = LastRow.panel_message_id]
        /\ LastJobs = {}
        /\ last.ev.to_user =
              IF last.ev.kind \in {"resolvequiet", "set_resolvequiet"}
              THEN {} ELSE {"ticket_resolved_user"}

C30_Witness ==
    /\ last.ev.kind \in {"resolvequiet", "set_resolvequiet"}
    /\ last.ev.user # None
    /\ last.pre.ticket_status = "open" /\ last.pre.awaiting_reply
    /\ UserJobs(last.pre_jobs, LastUser) # {}
    /\ LastJobs = {}
    /\ last.ev.to_user = {}

\* Nothing of the name is left by the sanitizer: it holds only matches of
\* the sensitive patterns, "@" signs, separators and blanks (or nothing).
Removed(s) ==
    \A i \in 1..Len(s) : s[i] \in {"L", "@"} \cup SEPARATOR_CLASS

\* C24: the sanitizer returns the placeholder for None, for the empty name
\* and for a name of which nothing is left; with a non-empty placeholder
\* the result is never empty; a result that is not the placeholder has at
\* most 64 characters.
C24_SanitizerContract ==
    tasks.done =>
        /\ (tasks.value.none \/ Removed(tasks.value.s))
              => tasks.result = tasks.placeholder
        /\ tasks.placeholder # <<>> => tasks.result # <<>>
        /\ tasks.result # tasks.placeholder
              => Len(tasks.result) <= MaxNameLen

C24_Witness ==
    /\ tasks.done
    /\ ~tasks.value.none /\ Len(tasks.value.s) > MaxNameLen
    /\ \E i \in 1..Len(tasks.value.s) : tasks.value.s[i] = "L"
    /\ tasks.result # tasks.placeholder
    /\ Len(tasks.result) = MaxNameLen

\* C26: a ticket written with update_user and read back with get_user is
\* equal in every field, for null and non-null topic id, silent marker id
\* and panel message id and for both values of every flag.
C26_RoundTrip ==
    tasks.pc = "got" => tasks.got = tasks.data

C26_Witness ==
    /\ tasks.pc = "got"
    /\ tasks.data.message_thread_id = None
    /\ tasks.data.message_silent_id = None
    /\ tasks.data.panel_message_id = None
    /\ tasks.data.is_banned /\ ~tasks.data.awaiting_reply
    /\ tasks.got = tasks.data

\* C31: the staff reopen leaves status=open, awaiting_reply=false and
\* operator_replied=false and no reminder of the user pending, whatever the
\* ticket was before; is_banned, silent mode and its marker, the topic id
\* and every other field but the id of the pressed panel stay as they were.
C31_ReopenPost ==
    last.ev.kind = "set_open" =>
        /\ LastRow = [last.pre EXCEPT
                         !.ticket_status = "open",
                         !.awaiting_reply = FALSE,
                         !.operator_replied = FALSE,
                         !.panel_message_id = LastRow.panel_message_id]
        /\ LastJobs = {}
        /\ last.ev.icon = "new"

C31_Witness ==
    /\ last.ev.kind = "set_open"
    /\ last.pre.ticket_status = "open"
    /\ last.pre.awaiting_reply /\ last.pre.operator_replied
    /\ last.pre.is_banned /\ last.pre.message_silent_mode
    /\ UserJobs(last.pre_jobs, LastUser) # {}
    /\ LastJobs = {}

\* C32: a /del that replies to a staff message with links deletes every
\* linked copy and the staff message and drops all links of that message
\* (and no other); a /del without a reply or without links deletes nothing;
\* a second /del on the same message deletes nothing; links are only added
\* by a staff message that was copied and only dropped by /del.
C32_DelPost ==
    (last.ev.kind = "del" /\ last.ev.user # None) =>
        LET linked == get_message_links(last.pre_links, last.ev.target)
        IN IF last.ev.target # None /\ linked # {}
           THEN /\ last.ev.deleted = linked /\ last.ev.origin
                /\ links = {l \in last.pre_links :
                               l.thread_message_id # last.ev.target}
           ELSE /\ last.ev.deleted = {} /\ ~last.ev.origin
                /\ links = last.pre_links

C32_DelConsumesLinks ==
    /\ []C32_DelPost
    /\ [][(/\ last.ev.kind = "del" /\ last.ev.deleted # {}
           /\ last'.ev.kind = "del" /\ last'.ev.target = last.ev.target)
             => (/\ last'.ev.deleted = {} /\ ~last'.ev.origin
                 /\ links' = links)]_vars
    /\ [][links' # links =>
             \/ /\ links \subseteq links'
                /\ last'.ev.kind = "staff_message" /\ last'.ev.copied
             \/ /\ links' \subseteq links
                /\ last'.ev.kind = "del"]_vars

C32_Witness ==
    /\ last.ev.kind = "del" /\ last.ev.origin
    /\ Cardinality(last.ev.deleted) = 2
    /\ links # {}
    /\ get_message_links(links, last.ev.target) = {}

\* What a callback refers to does not exist: the user of a panel button has
\* no row, or the topic of a quick-reply button has no ticket, or its item
\* is not in the catalog.
Missing(call, us, catalog) ==
    IF call.prefix = PANEL_NAMESPACE
    THEN get_user(us, call.user) = NoUser
    ELSE \/ get_by_message_thread_id(us, call.thread) = NoUser
         \/ get_item(catalog, call.item) = None

CallbackKinds == PanelActions \cup {"qr_send", "unhandled"}

\* C33: a panel or quick-reply callback whose ticket or catalog item does
\* not exist is answered with a not-found notice, and no ticket record,
\* reminder job or catalog entry is created or changed.
C33_NotFoundAnswered ==
    [][(/\ last'.ev.kind \in CallbackKinds
        /\ Missing(tasks'.call, users, tasks.catalog))
          => /\ last'.ev.not_found
             /\ users' = users /\ jobs' = jobs
             /\ tasks'.catalog = tasks.catalog]_vars

\* C33, the part about the state alone.
C33_NotFoundChangesNothing ==
    [][(/\ last'.ev.kind \in CallbackKinds
        /\ Missing(tasks'.call, users, tasks.catalog))
          => /\ users' = users /\ jobs' = jobs
             /\ tasks'.catalog = tasks.catalog]_vars

\* C33, the panel alone.
C33_PanelNotFoundAnswered ==
    [][(/\ last'.ev.kind \in CallbackKinds
        /\ tasks'.call.prefix = PANEL_NAMESPACE
        /\ Missing(tasks'.call, users, tasks.catalog))
          => last'.ev.not_found]_vars

\* C34: after any sequence of set_state / set_data a key has a row exactly
\* when its state is non-null or its data is non-empty, the state and the
\* data read back being the ones set last (None and {} at the start);
\* set_state leaves the data of the key as it was, set_data its state, and
\* neither touches another key.
C34_RowIffContent ==
    /\ \A key \in StorageKeys :
          (tasks.fsm[_build_key(key)] # NoRow)
              <=> (get_state(tasks.fsm, key) # None
                   \/ get_data(tasks.fsm, key) # {})
    /\ tasks.op = "set_state" =>
          /\ get_state(tasks.fsm, tasks.key) = tasks.state
          /\ get_data(tasks.fsm, tasks.key) = get_data(tasks.pre, tasks.key)
    /\ tasks.op = "set_data" =>
          /\ get_data(tasks.fsm, tasks.key) = tasks.data
          /\ get_state(tasks.fsm, tasks.key) = get_state(tasks.pre, tasks.key)
    /\ tasks.op # "none" =>
          \A key \in StorageKeys \ {tasks.key} :
              tasks.fsm[_build_key(key)] = tasks.pre[_build_key(key)]

\* Clearing the state kept the row because of its data; clearing the data
\* then deleted it.
C34_Witness ==
    /\ tasks.op = "set_data" /\ tasks.data = {}
    /\ tasks.pre[_build_key(tasks.key)] # NoRow
    /\ tasks.pre[_build_key(tasks.key)].state = None
    /\ tasks.fsm[_build_key(tasks.key)] = NoRow

\* The items of the dict of the overrides that are set.
Items(overrides) ==
    {<<l, overrides[l]>> : l \in {x \in Languages : overrides[x] # None}}

\* C35: get_greeting(lang) is the value set last since the last reset (None
\* if there is none) and get_all_greetings is exactly those pairs; the
\* same for the resolved-message overrides; the rows under other keys are
\* the ones other code wrote.
C35_SettingsRefineMaps ==
    /\ \A l \in Languages :
          /\ get_greeting(tasks.settings, l) = tasks.greeting[l]
          /\ get_resolved_message(tasks.settings, l) = tasks.resolved[l]
    /\ get_all_greetings(tasks.settings) = Items(tasks.greeting)
    /\ get_all_resolved_messages(tasks.settings) = Items(tasks.resolved)
    /\ \A k \in OtherKeys : tasks.settings[k] = tasks.other[k]

\* A greeting was reset while the resolved message of the same language
\* and a row of other code that the LIKE pattern matches stay.
C35_Witness ==
    /\ tasks.op = "reset_greeting"
    /\ get_greeting(tasks.settings, tasks.language) = None
    /\ get_resolved_message(tasks.settings, tasks.language) = 2
    /\ get_all_greetings(tasks.settings) = {<<(<<"ru">>), 1>>}
    /\ tasks.settings[<<"Greeting", ":", "en">>] = 1

\* C36: every /silent in the topic of a ticket flips message_silent_mode
\* (so two in a row restore it), and after it the mode is on exactly when
\* a marker message id is stored.
C36_SilentFlips ==
    (last.ev.kind = "silent" /\ last.ev.user # None) =>
        /\ LastRow.message_silent_mode = ~last.pre.message_silent_mode
        /\ LastRow.message_silent_mode <=> LastRow.message_silent_id # None

\* C36 for the /silent that did not end with an exception.
C36_SilentFlipsUnlessRaised ==
    (last.ev.kind = "silent" /\ last.ev.user # None) =>
        /\ ~last.ev.raised =>
              LastRow.message_silent_mode = ~last.pre.message_silent_mode
        /\ LastRow.message_silent_mode <=> LastRow.message_silent_id # None

\* A user message was relayed with reminders enabled: the ticket is open
\* and awaits a reply, and its reminder is scheduled.
Armed ==
    /\ reminders_enabled
    /\ last.ev.kind = "user_message" /\ last.ev.relayed
    /\ LastRow.ticket_status = "open" /\ LastRow.awaiting_reply
    /\ LastJobs # {}

\* A staff reply, a resolve, a reopen, a ban or a rescheduling by the panel
\* came.
Preempted ==
    \/ last.ev.kind = "staff_message" /\ last.ev.confirmation # "none"
    \/ last.ev.kind \in {"resolve", "resolvequiet", "set_resolve",
                          "set_resolvequiet", "set_open", "ban", "postpone"}
    \/ last.ev.kind = "user_message" /\ ~last.ev.relayed
          /\ LastRow # NoUser /\ LastRow.is_banned

Reminded == last.ev.kind = "reminder" /\ last.ev.notice

C38_ResolvedNotReplied ==
    \A u \in Users :
        (users[u] # NoUser /\ users[u].ticket_status = "resolved")
            => ~users[u].operator_replied

\* Staff wrote into the topic of a resolved ticket.
C38_Witness ==
    /\ last.ev.kind = "staff_message" /\ last.ev.confirmation # "none"
    /\ last.pre.ticket_status = "resolved"
    /\ LastRow.ticket_status = "resolved" /\ ~LastRow.operator_replied

\* C39: when no restore_topic_icon task sleeps, the topic shows the
\* 'resolved' icon exactly when the ticket is resolved.
C39_IconMatchesStatus ==
    tasks.restore = 0 =>
        \A u \in Users :
            users[u] # NoUser =>
                (tasks.icon = "resolved"
                    <=> users[u].ticket_status = "resolved")

\* C39 is lost only by a step of a restore_topic_icon task.
C39_LostOnlyByRestore ==
    [][(C39_IconMatchesStatus /\ ~C39_IconMatchesStatus')
          => last'.ev.kind = "restore_topic_icon"]_vars

\* The versions whose callback the run called, in the order of the calls.
Called ==
    LET calls == SelectSeq(tasks.log, LAMBDA e : e.op # "set")
    IN [i \in DOMAIN calls |-> calls[i].version]

\* The versions the run recorded, in the order of the writes.
Recorded ==
    LET sets == SelectSeq(tasks.log, LAMBDA e : e.op = "set")
    IN [i \in DOMAIN sets |-> sets[i].version]

\* The listed versions above the one the run read, ascending.
Due == sorted({v \in Listed(tasks.registry) : v > tasks.start})

IsPrefix(s, t) == Len(s) <= Len(t) /\ s = SubSeq(t, 1, Len(s))

\* C40: a run calls the migrations above the stored version in ascending
\* order, all of them when it completes; a version is recorded right after
\* its own callback returned, so the stored version is the last one whose
\* callback completed (after a failure too); once a run completed, a run
\* without a release in between has nothing to call; the stored version
\* never decreases.
C40_RunState ==
    /\ IsPrefix(Called, Due)
    /\ tasks.ended = "completed" => Called = Due
    /\ IsPrefix(Recorded, Called)
    /\ Len(Recorded) = Len(SelectSeq(tasks.log, LAMBDA e : e.op = "callback"))
                           - (IF tasks.pc = "set" THEN 1 ELSE 0)
    /\ \A i \in DOMAIN tasks.log :
          tasks.log[i].op = "set" =>
              /\ i > 1
              /\ tasks.log[i - 1] = [op |-> "callback",
                                     version |-> tasks.log[i].version]
    /\ tasks.ended # "never" =>
          _get_current_version(tasks.meta) =
              IF Recorded = <<>> THEN tasks.start
              ELSE Recorded[Len(Recorded)]
    /\ tasks.ended = "completed" =>
          PendingLoop(tasks.registry, _get_current_version(tasks.meta)) = <<>>

C40_RunPendingContract ==
    /\ []C40_RunState
    /\ [][_get_current_version(tasks'.meta)
             >= _get_current_version(tasks.meta)]_vars

\* The second migration of a run raised after the first was recorded; the
\* release had listed the newer one first.
C40_Witness ==
    /\ tasks.ended = "failed"
    /\ tasks.registry[1] = 3
    /\ Called = <<2, 3>>
    /\ Recorded = <<2>>
    /\ tasks.meta = str(2)

====
